---- MODULE Spec2Model ----
(***************************************************************************)
(* Process supervision of the S-IDE desktop shell: the backend-server and  *)
(* tunnel slots (main.rs ServerState / TunnelState), the Tauri commands    *)
(* that start, stop and query them (commands.rs), the handles and their    *)
(* Drop implementations (server.rs, tunnel.rs), the tunnel's stdout        *)
(* reader task (tunnel.rs) and the window-close / auto-start code of       *)
(* window.rs.                                                              *)
(***************************************************************************)
EXTENDS Integers, Sequences, FiniteSets, TLC

\* ------------------------------------------------------------------ bounds
NumCallers == 2      \* concurrent command invocations (Tauri async commands)
MaxProcs == 2        \* child processes spawned during one run
MaxLineLen == 2      \* tokens in one stdout line of the tunnel client

\* --------------------------------------------------------- program constants
MIN_PORT == 1024
DEFAULT_PORT == 8787

None == 0            \* Option::None for a handle / a lock that nobody holds

Callers == 1..NumCallers
Pids == 1..MaxProcs
Kinds == {"server", "tunnel"}
Ports == {MIN_PORT - 1, MIN_PORT}                 \* port arguments of start_server
TunnelPorts == {MIN_PORT - 1, DEFAULT_PORT}      \* port arguments of start_tunnel
ReaderTask == 0 - 1  \* the stdout reader task as a holder of a url/password lock

\* A stdout line is a sequence of tokens.  "U" stands for the literal
\* "your url is:", "P" for "your password is:", "I" for "your ip:", "_" for
\* one whitespace character and "a" for any other text.
Tokens == {"U", "P", "I", "_", "a"}
NoneStr == <<"none">>          \* Option<String>::None; Some(s) is the sequence s
SeqsUpTo(n) == UNION {[1..k -> Tokens] : k \in 0..n}
AllLines == SeqsUpTo(MaxLineLen)
FewLines == {<<"U", "a">>, <<"I", "a">>}

VARIABLES
    slot,        \* [Kinds -> Pids \cup {None}]: ServerState.0 / TunnelState.0
    slotLock,    \* [Kinds -> Callers \cup {None}]: holder of the slot's tokio Mutex
    pstate,      \* [Pids -> {"unborn","running","exited"}]: the OS process
    pkind,       \* [Pids -> {"none","server","tunnel","auto"}]
    penv,        \* [Pids -> the environment variables the Command of the process was given]
    pport,       \* [Pids -> port]: ServerHandle.port
    killIssued,  \* [Pids -> BOOLEAN]: a kill (kill / start_kill / kill_on_drop) was issued
    takeCount,   \* [Pids -> Nat]: how many stop calls obtained this handle (history)
    pc,          \* [Callers -> position in the command being run]
    port,        \* [Callers -> port argument]
    h,           \* [Callers -> Pids \cup {None}]: handle owned by the call's locals
    res,         \* [Callers -> result record]
    mine,        \* [Callers -> pid this call spawned] (history)
    seen,        \* [Callers -> slot value when the call took the slot lock] (history)
    url,         \* [Pids -> Option<String>]: TunnelHandle.url cell
    password,    \* [Pids -> Option<String>]: TunnelHandle.password cell
    urlLock,     \* [Pids -> holder of the url Mutex]
    pwLock,      \* [Pids -> holder of the password Mutex]
    rpc,         \* [Pids -> position of the reader task]
    rline,       \* [Pids -> line being processed by the reader task]
    lastUrl,     \* [Pids -> last processed line holding the url marker] (history)
    lastPw,      \* [Pids -> last processed line holding a password marker] (history)
    stdoutLines, \* lines the tunnel client may print
    toPrint,     \* how many lines the tunnel clients may still print
    callers,     \* callers that issue commands in this specification
    dev,         \* server.rs is_development_mode() of this run of the application
    listening,   \* [Pids -> the port the process has bound, 0 before it has bound one]
    serverHandle,\* window.rs SERVER_HANDLE: Pids \cup {None}
    shLock,      \* holder of SERVER_HANDLE's Mutex: "none", "auto", "close"
    apc,         \* position of the auto-start task
    ah,          \* child owned by the auto-start task's locals
    wpc,         \* position of the CloseRequested handler
    wh,          \* child owned by the close handler's locals
    session,     \* "open", "ended"
    spc,         \* position of the scan call
    opts,        \* its arguments: ports, parallelism, os_detection, version_detection, use_nmap
    unchunked,   \* ports_to_scan not yet taken by chunks()
    tospawn,     \* ports of the current chunk for which no probe is spawned yet
    probes,      \* the probe tasks spawned by the call, in spawn order: [port, batch, out]
    batch,       \* number of the current chunk
    awaiting,    \* index in probes of the task that scan_host awaits
    open_ports,  \* Vec<PortInfo> open_ports
    closed_ports,\* Vec<PortInfo> closed_ports
    completed,   \* indices of the probes in the order of their completion (history)
    result,      \* the ScanResult being built
    svc_i,       \* index in open_ports of the post-processing loop
    sret,        \* what the scan call returns
    target,      \* [ScanPorts -> outcomes a probe of the port may have]
    avail,       \* outcome of is_nmap_available in this call: "unchecked", "yes", "no"
    nmap_run,    \* the outcome of the nmap subprocess run by this call (history)
    ran,         \* the backends run by this call, in order (history)
    banner,      \* the text handed to parse_version_from_banner
    bversion,    \* what parse_version_from_banner returned
    dsv          \* a call of detect_service_version: its port, the service, its position

procVars == <<pstate, pkind, penv, pport, killIssued, takeCount>>
callVars == <<pc, port, h, res, mine, seen>>
tunVars == <<url, password, urlLock, pwLock, rpc, rline, lastUrl, lastPw>>
winVars == <<serverHandle, shLock, apc, ah, wpc, wh, session>>
envVars == <<stdoutLines, callers, dev, listening>>
fpVars == <<banner, bversion, dsv>>
scanCallVars == <<spc, opts, unchunked, tospawn, probes, batch, awaiting, open_ports,
                  closed_ports, completed, result, svc_i, sret, target, avail, nmap_run, ran>>
scanVars == <<spc, opts, unchunked, tospawn, probes, batch, awaiting, open_ports, closed_ports,
              completed, result, svc_i, sret, target, avail, nmap_run, ran, fpVars>>
vars == <<slot, slotLock, procVars, callVars, tunVars, toPrint, envVars, scanVars, winVars>>

\* ------------------------------------------------------------------ results
Res(tag, running, p, u) == [tag |-> tag, running |-> running, port |-> p, url |-> u]
NoRes == Res("none", FALSE, 0, NoneStr)
Tag(tag) == Res(tag, FALSE, 0, NoneStr)
ErrTags == {"ErrPort", "ErrAlreadyRunning", "ErrCheckPort", "ErrSpawn",
            "ErrUrlNotAvailable", "ErrNotRunning", "ErrKill"}
OkTags == {"OkStarted", "OkExternal", "OkUrl", "OkStopped", "OkStatus"}

\* common.rs validate_port
validate_port(p) == ~(p < MIN_PORT) /\ ~(p = 0)

\* ------------------------------------------- server.rs: the backend's Command
\* u16::to_string: the decimal digits of the number
RECURSIVE to_string(_)
to_string(n) ==
    LET d == <<"0", "1", "2", "3", "4", "5", "6", "7", "8", "9">>[(n % 10) + 1]
    IN IF n < 10 THEN <<d>> ELSE to_string(n \div 10) \o <<d>>

\* The variables a Command sets with .env(); all others are inherited from
\* the application's own environment.
NoEnv == [given |-> {}, PORT |-> <<>>, DB_PATH |-> <<>>]

\* server.rs 114-160: npm run dev in the server directory
start_dev_server(p) ==
    [given |-> {"DB_PATH"}, PORT |-> <<>>,
     DB_PATH |-> <<"server_dir", "data", "deck-ide.db">>]

\* server.rs 167-211: node with the server script
start_production_server(p) ==
    [given |-> {"PORT", "DB_PATH"}, PORT |-> to_string(p),
     DB_PATH |-> <<"data_dir", "deck-ide.db">>]

\* server.rs 74-84: the Command of the path the build mode selects
server_start(p) == IF dev THEN start_dev_server(p) ELSE start_production_server(p)

\* ---------------------------------------------------------------- processes
CanSpawn == \E p \in Pids : pstate[p] = "unborn"
NewPid == CHOOSE p \in Pids : pstate[p] = "unborn" /\ \A q \in Pids : q < p => pstate[q] # "unborn"

\* Command::kill_on_drop(true): dropping the Child issues a kill
kill_on_drop(ki, p) == [ki EXCEPT ![p] = TRUE]

\* Dropping a ServerHandle / TunnelHandle: Drop::drop issues
\* self.child.start_kill(), then the child field is dropped
Drop_noKill(ki, p) == ki
Drop_drop(ki, p) == kill_on_drop([ki EXCEPT ![p] = TRUE], p)

\* A handle is reachable while the slot or the locals of a running call hold it.
Reachable(p) == \/ \E k \in Kinds : slot[k] = p
                \/ \E c \in Callers : h[c] = p
                \/ serverHandle = p \/ ah = p \/ wh = p


\* ---------------------------------------------------------- string scanning
Contains(line, m) == \E i \in 1..Len(line) : line[i] = m
FirstIdx(line, m) == CHOOSE i \in 1..Len(line) : line[i] = m /\ \A j \in 1..(i-1) : line[j] # m

\* line.split(m).nth(1): the piece between the first m and the next m (or the
\* end of the line); None when the line has no m.
SplitNth1(line, m) ==
    IF ~Contains(line, m) THEN NoneStr
    ELSE LET rest == SubSeq(line, FirstIdx(line, m) + 1, Len(line))
         IN  IF Contains(rest, m) THEN SubSeq(rest, 1, FirstIdx(rest, m) - 1) ELSE rest

\* str::trim: drop leading and trailing whitespace
RECURSIVE TrimStart(_)
TrimStart(s) == IF s # <<>> /\ Head(s) = "_" THEN TrimStart(Tail(s)) ELSE s
RECURSIVE TrimEnd(_)
TrimEnd(s) == IF s # <<>> /\ s[Len(s)] = "_" THEN TrimEnd(SubSeq(s, 1, Len(s) - 1)) ELSE s
Trim(s) == TrimEnd(TrimStart(s))

\* tunnel.rs 70-76: the value stored in the url cell for a line holding the marker
CapturedUrl_untrimmed(line) == SplitNth1(line, "U")
CapturedUrl(line) == Trim(SplitNth1(line, "U"))

\* tunnel.rs 78-84: split("your password is:").nth(1).or_else(split("your ip:").nth(1))
HasPwMarker(line) == Contains(line, "P") \/ Contains(line, "I")
CapturedPw(line) ==
    IF SplitNth1(line, "P") # NoneStr THEN Trim(SplitNth1(line, "P"))
    ELSE Trim(SplitNth1(line, "I"))

\* ------------------------------------------------------- scanner.rs: values
MaxElements == 2     \* lines in one nmap payload
MaxPorts == 3        \* ports in one requested port list
DEFAULT_PARALLELISM == 100

ScanPorts == {22, 3389, 9000}
\* the requested port lists: no port twice
PortLists ==
    {l \in UNION {[1..k -> ScanPorts] : k \in 0..MaxPorts} :
        \A i, j \in 1..Len(l) : i # j => l[i] # l[j]}
Pars == {1, 2, DEFAULT_PARALLELISM}

\* TcpStream::connect under tokio_timeout: connected, refused, failed with
\* another error, or not completed in time; "fault" is a probe task that
\* panicked or was cancelled (a JoinError)
ConnectOutcomes == {"ok", "refused", "error", "timeout"}
TaskOutcomes == ConnectOutcomes \cup {"fault"}
AnyTarget == [p \in ScanPorts |-> TaskOutcomes]
StaticTargets == [ScanPorts -> {{o} : o \in {"ok", "refused", "timeout"}}]

SERVICE_FINGERPRINTS ==
    << <<21, "ftp">>, <<22, "ssh">>, <<23, "telnet">>, <<25, "smtp">>, <<53, "dns">>,
       <<80, "http">>, <<110, "pop3">>, <<143, "imap">>, <<443, "https">>,
       <<3306, "mysql">>, <<3389, "rdp">>, <<5432, "postgresql">>, <<3000, "nodejs">>,
       <<5173, "vite">>, <<8000, "http-alt">>, <<8080, "http-proxy">>, <<8787, "side-ide">> >>

\* PortInfo { port, status, protocol, .. }; probe_port sets protocol "tcp"
PortInfoOf(p, st, proto) == [port |-> p, status |-> st, protocol |-> proto]
PortInfo(p, st) == PortInfoOf(p, st, "tcp")
NoInfo == [port |-> 0, status |-> "none", protocol |-> "none"]      \* Option<PortInfo>::None
JoinError == [port |-> 0, status |-> "JoinError", protocol |-> "none"]

\* probe_port (scanner.rs 221-240) for the outcome o of the connect
probe_port_allOpen(p, o) == PortInfo(p, "Open")
probe_port_timeoutClosed(p, o) == PortInfo(p, IF o = "ok" THEN "Open" ELSE "Closed")
probe_port(p, o) ==
    CASE o = "ok" -> PortInfo(p, "Open")
      [] o \in {"refused", "error"} -> PortInfo(p, "Closed")
      [] o = "timeout" -> NoInfo

\* task.await of a probe task that has completed
Join_faultOpen(pr) == IF pr.out \notin ConnectOutcomes THEN PortInfo(pr.port, "Open")
                      ELSE probe_port(pr.port, pr.out)
Join(pr) == IF pr.out \notin ConnectOutcomes THEN JoinError ELSE probe_port(pr.port, pr.out)

\* ports_to_scan.chunks(batch_size): the next chunk and what is left after it
NextChunk(r, n) == SubSeq(r, 1, IF Len(r) < n THEN Len(r) ELSE n)
AfterChunk_drop(r, n) == <<>>
AfterChunk(r, n) == IF Len(r) <= n THEN <<>> ELSE SubSeq(r, n + 1, Len(r))

\* detect_os (scanner.rs 244-264)
NoneOs == "None"
WindowsPorts == {135, 445, 3389}
UnixPorts == {22, 111}
has_windows_ports(ops) == \E i \in 1..Len(ops) : ops[i].port \in WindowsPorts
has_unix_ports_only22(ops) == \E i \in 1..Len(ops) : ops[i].port = 22
has_unix_ports(ops) == \E i \in 1..Len(ops) : ops[i].port \in UnixPorts
detect_os(ops) ==
    IF ops = <<>> THEN NoneOs
    ELSE IF has_windows_ports(ops) /\ ~has_unix_ports(ops) THEN "Windows"
    ELSE IF has_unix_ports(ops) /\ ~has_windows_ports(ops) THEN "Unix/Linux"
    ELSE "Unknown"

\* SERVICE_FINGERPRINTS.iter().find(|(p, _)| *p == port.port).map(|(_, name)| name)
LOCALHOST == "127.0.0.1"
NoName == "None"
Fingerprint_none(p) == NoName
Fingerprint(p) ==
    LET hits == {i \in 1..Len(SERVICE_FINGERPRINTS) : SERVICE_FINGERPRINTS[i][1] = p}
    IN  IF hits = {} THEN NoName
        ELSE SERVICE_FINGERPRINTS[CHOOSE i \in hits : \A j \in hits : i <= j][2]

\* ServiceInfo; port and by record where the entry came from (history)
ServiceInfo(name, version, info, p, by) ==
    [name |-> name, version |-> version, info |-> info, port |-> p, by |-> by]

NoOpts == [ports |-> <<>>, parallelism |-> 0, os_detection |-> FALSE,
           version_detection |-> FALSE, use_nmap |-> FALSE]
ScanOptions(ports, par, os, ver, nmap) ==
    [ports |-> ports, parallelism |-> par, os_detection |-> os,
     version_detection |-> ver, use_nmap |-> nmap]
ScanResult(host, ports, os, services, by) ==
    [host |-> host, ports |-> ports, os_guess |-> os, services |-> services, by |-> by]
NoResult == ScanResult("none", <<>>, NoneOs, <<>>, "none")
NoRun == [launch |-> "none", code |-> 0, stdout |-> <<>>, stderr |-> ""]
NoRet == [tag |-> "none", reports |-> <<>>, text |-> <<>>]

\* no call of the fingerprinter is running
NoDsv == [pc |-> "idle"]
FpIdle == banner = <<>> /\ bversion = NoneStr /\ dsv = NoDsv

\* no scan is running
ScanIdle ==
    /\ spc = "idle" /\ opts = NoOpts /\ unchunked = <<>> /\ tospawn = <<>>
    /\ probes = <<>> /\ batch = 0 /\ awaiting = 0
    /\ open_ports = <<>> /\ closed_ports = <<>> /\ completed = <<>>
    /\ result = NoResult /\ svc_i = 0 /\ sret = NoRet
    /\ avail = "unchecked" /\ nmap_run = NoRun /\ ran = <<>>
    /\ FpIdle

\* ------------------------------------------------------------ initial state
InitProgram ==
    /\ slot = [k \in Kinds |-> None]
    /\ slotLock = [k \in Kinds |-> None]
    /\ pstate = [p \in Pids |-> "unborn"]
    /\ pkind = [p \in Pids |-> "none"]
    /\ penv = [p \in Pids |-> NoEnv]
    /\ listening = [p \in Pids |-> 0]
    /\ pport = [p \in Pids |-> 0]
    /\ killIssued = [p \in Pids |-> FALSE]
    /\ takeCount = [p \in Pids |-> 0]
    /\ pc = [c \in Callers |-> "idle"]
    /\ port = [c \in Callers |-> 0]
    /\ h = [c \in Callers |-> None]
    /\ res = [c \in Callers |-> NoRes]
    /\ mine = [c \in Callers |-> None]
    /\ seen = [c \in Callers |-> None]
    /\ url = [p \in Pids |-> NoneStr]
    /\ password = [p \in Pids |-> NoneStr]
    /\ urlLock = [p \in Pids |-> None]
    /\ pwLock = [p \in Pids |-> None]
    /\ rpc = [p \in Pids |-> "off"]
    /\ rline = [p \in Pids |-> <<>>]
    /\ lastUrl = [p \in Pids |-> NoneStr]
    /\ lastPw = [p \in Pids |-> NoneStr]
    /\ serverHandle = None
    /\ shLock = "none"
    /\ apc = "sleep"
    /\ ah = None
    /\ wpc = "idle"
    /\ wh = None
    /\ session = "open"

\* a packaged build: is_development_mode() is false
InitSupervisor == InitProgram /\ dev = FALSE

InitCommon == InitSupervisor /\ ScanIdle /\ target = AnyTarget

Init == InitCommon /\ stdoutLines = FewLines /\ toPrint = 1 /\ callers = Callers

\* ------------------------------------------------------------ the slot lock
ServerPcs == {"ss_lock", "ss_check", "ss_spawn", "sp_lock", "sp_take", "sp_kill",
              "gs_lock", "gs_read"}
KindOf(c) == IF pc[c] \in ServerPcs THEN "server" ELSE "tunnel"
LockPcs == {"ss_lock", "sp_lock", "gs_lock", "ts_lock", "tp_lock", "gt_lock"}
AfterLock(l) == CASE l = "ss_lock" -> "ss_check" [] l = "sp_lock" -> "sp_take"
                  [] l = "gs_lock" -> "gs_read"  [] l = "ts_lock" -> "ts_check"
                  [] l = "tp_lock" -> "tp_take"  [] l = "gt_lock" -> "gt_check"

\* tokio Mutex: lock().await completes only while nobody holds the guard
MutexFree_unguarded(k) == TRUE
MutexFree(k) == slotLock[k] = None

\* state.0.lock().await of every command
LockSlot(c) ==
    /\ session = "open" /\ pc[c] \in LockPcs
    /\ MutexFree(KindOf(c))
    /\ slotLock' = [slotLock EXCEPT ![KindOf(c)] = c]
    /\ seen' = [seen EXCEPT ![c] = slot[KindOf(c)]]
    /\ pc' = [pc EXCEPT ![c] = AfterLock(pc[c])]
    /\ UNCHANGED <<slot, procVars, port, h, res, mine, tunVars, toPrint, envVars, scanVars, winVars>>

\* the command returns: its guards are dropped and its locals end
Return(c) ==
    /\ session = "open" /\ pc[c] = "ret"
    /\ slotLock' = [k \in Kinds |-> IF slotLock[k] = c THEN None ELSE slotLock[k]]
    /\ pc' = [pc EXCEPT ![c] = "idle"]
    /\ port' = [port EXCEPT ![c] = 0]
    /\ res' = [res EXCEPT ![c] = NoRes]
    /\ mine' = [mine EXCEPT ![c] = None]
    /\ seen' = [seen EXCEPT ![c] = None]
    /\ UNCHANGED <<slot, procVars, h, tunVars, toPrint, envVars, scanVars, winVars>>

Finish(c, r) ==
    /\ pc' = [pc EXCEPT ![c] = "ret"]
    /\ res' = [res EXCEPT ![c] = r]

\* *state = Some(handle)
SlotStore_skip(k, p) == slot
SlotStore(k, p) == [slot EXCEPT ![k] = p]

\* ... the value the slot held before is dropped
StoreKill(k, ki) == IF slot[k] # None THEN Drop_drop(ki, slot[k]) ELSE ki

\* ------------------------------------------------------------- start_server
start_server_call(c, p) ==
    /\ session = "open" /\ c \in callers /\ pc[c] = "idle"
    /\ port' = [port EXCEPT ![c] = p]
    /\ IF validate_port(p)
       THEN pc' = [pc EXCEPT ![c] = "ss_lock"] /\ res' = res
       ELSE Finish(c, Tag("ErrPort"))
    /\ UNCHANGED <<slot, slotLock, procVars, h, mine, seen, tunVars, toPrint, envVars, scanVars, winVars>>

\* if server_state.is_some()
Occupied_never(k) == FALSE
Occupied(k) == slot[k] # None

\* TcpListener::bind (commands.rs 35): AddrInUse when a process of the
\* application or an external one holds the port, another error, or Ok when
\* no process of the application holds it
PortTaken(q) == \E p \in Pids : pstate[p] = "running" /\ listening[p] = q
BindOutcomes(q) == {"in_use", "other"} \cup (IF PortTaken(q) THEN {} ELSE {"ok"})

\* commands.rs 29-51: the is_some test and the TcpListener::bind pre-check
start_server_check(c) ==
    /\ session = "open" /\ pc[c] = "ss_check"
    /\ IF Occupied("server")
       THEN Finish(c, Tag("ErrAlreadyRunning"))
       ELSE \E bind \in BindOutcomes(port[c]) :
              CASE bind = "ok" -> pc' = [pc EXCEPT ![c] = "ss_spawn"] /\ res' = res
                [] bind = "in_use" -> Finish(c, Res("OkExternal", FALSE, port[c], NoneStr))
                [] bind = "other" -> Finish(c, Tag("ErrCheckPort"))
    /\ UNCHANGED <<slot, slotLock, procVars, port, h, mine, seen, tunVars, toPrint, envVars, scanVars, winVars>>

\* commands.rs 54-56 with server::start (server.rs 74-84, 114-211)
start_server_spawn(c) ==
    /\ session = "open" /\ pc[c] = "ss_spawn"
    /\ \/ \* validate_port, find_project_root, find_npm_command, spawn: an error
          /\ Finish(c, Tag("ErrSpawn"))
          /\ UNCHANGED <<slot, procVars, mine>>
       \/ /\ validate_port(port[c]) /\ CanSpawn
          /\ LET p == NewPid IN
             /\ pstate' = [pstate EXCEPT ![p] = "running"]
             /\ pkind' = [pkind EXCEPT ![p] = "server"]
             /\ penv' = [penv EXCEPT ![p] = server_start(port[c])]
             /\ pport' = [pport EXCEPT ![p] = port[c]]
             /\ killIssued' = StoreKill("server", killIssued)
             /\ slot' = SlotStore("server", p)
             /\ mine' = [mine EXCEPT ![c] = p]
          /\ Finish(c, Res("OkStarted", FALSE, port[c], NoneStr))
          /\ UNCHANGED takeCount
    /\ UNCHANGED <<slotLock, port, h, seen, tunVars, toPrint, envVars, scanVars, winVars>>

\* ---------------------------------------------------------------- stop (both)
\* server_state.take() / tunnel_state.take()
TakeSlot_keep(k) == slot
TakeSlot(k) == [slot EXCEPT ![k] = None]

StopTake(c, k) ==
    /\ IF slot[k] # None
       THEN /\ h' = [h EXCEPT ![c] = slot[k]]
            /\ takeCount' = [takeCount EXCEPT ![slot[k]] = @ + 1]
            /\ slot' = TakeSlot(k)
            /\ pc' = [pc EXCEPT ![c] = IF k = "server" THEN "sp_kill" ELSE "tp_kill"]
            /\ res' = res
       ELSE /\ Finish(c, Tag("ErrNotRunning"))
            /\ UNCHANGED <<slot, h, takeCount>>
    /\ UNCHANGED <<slotLock, pstate, pkind, penv, pport, killIssued, port, mine, seen, tunVars,
                   toPrint, envVars, scanVars, winVars>>

\* The cells are shared (Arc) by the handle and the reader task; they are
\* freed when the handle has been dropped and the task has ended.
FreeCells(f, p) == [f EXCEPT ![p] = NoneStr]

\* server::stop / tunnel::stop: handle.child.kill().await, then the handle,
\* moved into stop, is dropped.  kill() is start_kill followed by wait: Ok
\* means the child was waited for; the kill of a live child of this process
\* is accepted by the OS, so an Err comes from a child that has already gone.
\* KillWait is the effect of a kill().await that returns Ok.
KillWait_nowait(ps, p) == ps
KillWait(ps, p) == [ps EXCEPT ![p] = "exited"]

StopKill(c) ==
    /\ h[c] # None
    /\ LET p == h[c] IN
       /\ \/ /\ pstate' = KillWait(pstate, p)
             /\ killIssued' = Drop_drop([killIssued EXCEPT ![p] = TRUE], p)
             /\ Finish(c, Tag("OkStopped"))
          \/ /\ pstate[p] = "exited"
             /\ pstate' = pstate
             /\ killIssued' = Drop_drop(killIssued, p)
             /\ Finish(c, Tag("ErrKill"))
       /\ IF rpc[p] = "eof"
          THEN /\ rpc' = [rpc EXCEPT ![p] = "freed"]
               /\ url' = FreeCells(url, p) /\ password' = FreeCells(password, p)
               /\ lastUrl' = FreeCells(lastUrl, p) /\ lastPw' = FreeCells(lastPw, p)
          ELSE UNCHANGED <<rpc, url, password, lastUrl, lastPw>>
    /\ h' = [h EXCEPT ![c] = None]
    /\ pport' = [pport EXCEPT ![h[c]] = 0]
    /\ toPrint' = toPrint
    /\ UNCHANGED <<slot, slotLock, pkind, penv, takeCount, port, mine, seen, urlLock, pwLock,
                   rline, envVars, scanVars, winVars>>

\* -------------------------------------------------------------- stop_server
stop_server_call(c) ==
    /\ session = "open" /\ c \in callers /\ pc[c] = "idle"
    /\ pc' = [pc EXCEPT ![c] = "sp_lock"]
    /\ UNCHANGED <<slot, slotLock, procVars, port, h, res, mine, seen, tunVars, toPrint,
                   envVars, scanVars, winVars>>

stop_server_take(c) == session = "open" /\ pc[c] = "sp_take" /\ StopTake(c, "server")

stop_server_kill(c) == session = "open" /\ pc[c] = "sp_kill" /\ StopKill(c)

\* -------------------------------------------------------- get_server_status
get_server_status_call(c) ==
    /\ session = "open" /\ c \in callers /\ pc[c] = "idle"
    /\ pc' = [pc EXCEPT ![c] = "gs_lock"]
    /\ UNCHANGED <<slot, slotLock, procVars, port, h, res, mine, seen, tunVars, toPrint,
                   envVars, scanVars, winVars>>

\* commands.rs 86-100; portInUse is the outcome of binding DEFAULT_PORT
ServerStatus(portInUse) ==
    IF slot["server"] # None
    THEN Res("OkStatus", TRUE, pport[slot["server"]], NoneStr)
    ELSE Res("OkStatus", portInUse, DEFAULT_PORT, NoneStr)

get_server_status_read(c) ==
    /\ session = "open" /\ pc[c] = "gs_read"
    /\ \E portInUse \in BOOLEAN : Finish(c, ServerStatus(portInUse))
    /\ UNCHANGED <<slot, slotLock, procVars, port, h, mine, seen, tunVars, toPrint,
                   envVars, scanVars, winVars>>


\* ------------------------------------------------------------- start_tunnel
start_tunnel_call(c, p) ==
    /\ session = "open" /\ c \in callers /\ pc[c] = "idle"
    /\ port' = [port EXCEPT ![c] = p]
    /\ IF validate_port(p)
       THEN pc' = [pc EXCEPT ![c] = "ts_lock"] /\ res' = res
       ELSE Finish(c, Tag("ErrPort"))
    /\ UNCHANGED <<slot, slotLock, procVars, h, mine, seen, tunVars, toPrint, envVars, scanVars, winVars>>

\* if tunnel_state.is_some()
start_tunnel_check(c) ==
    /\ session = "open" /\ pc[c] = "ts_check"
    /\ IF Occupied("tunnel")
       THEN Finish(c, Tag("ErrAlreadyRunning"))
       ELSE pc' = [pc EXCEPT ![c] = "ts_spawn"] /\ res' = res
    /\ UNCHANGED <<slot, slotLock, procVars, port, h, mine, seen, tunVars, toPrint, envVars, scanVars, winVars>>

\* tunnel.rs 46-47: the child is spawned with .stdout(Stdio::piped()), so
\* child.stdout.take() is Some after a successful spawn
StdoutPiped == TRUE

\* tunnel::start (tunnel.rs 36-88): validate_port, find_npx_command, spawn,
\* take stdout, create the cells, spawn the reader task
start_tunnel_spawn(c) ==
    /\ session = "open" /\ pc[c] = "ts_spawn"
    /\ \/ /\ Finish(c, Tag("ErrSpawn"))
          /\ UNCHANGED <<procVars, h, mine, tunVars, toPrint>>
       \/ /\ validate_port(port[c]) /\ CanSpawn
          /\ LET p == NewPid IN
             /\ pstate' = [pstate EXCEPT ![p] = "running"]
             /\ pkind' = [pkind EXCEPT ![p] = "tunnel"]
             /\ penv' = [penv EXCEPT ![p] = NoEnv]
             /\ mine' = [mine EXCEPT ![c] = p]
             /\ toPrint' = toPrint
             /\ IF StdoutPiped
                THEN /\ h' = [h EXCEPT ![c] = p]
                     /\ rpc' = [rpc EXCEPT ![p] = "next"]
                     /\ pc' = [pc EXCEPT ![c] = "ts_url"]
                     /\ res' = res
                     /\ killIssued' = killIssued
                ELSE \* the child, spawned with kill_on_drop(true), is dropped
                     /\ h' = h /\ rpc' = rpc
                     /\ killIssued' = kill_on_drop(killIssued, p)
                     /\ Finish(c, Tag("ErrSpawn"))
          /\ UNCHANGED <<pport, takeCount, url, password, urlLock, pwLock, rline, lastUrl, lastPw>>
    /\ UNCHANGED <<slot, slotLock, port, seen, envVars, scanVars, winVars>>

\* tokio Mutex of a cell: lock().await completes only while nobody holds the guard
CellFree(lk, p) == lk[p] = None

\* tunnel::get_url: handle.url.lock().await ...
GetUrlLock(c, p, next) ==
    /\ CellFree(urlLock, p)
    /\ urlLock' = [urlLock EXCEPT ![p] = c]
    /\ pc' = [pc EXCEPT ![c] = next]

\* commands.rs 143: let url = tunnel::get_url(&handle).await
start_tunnel_get_url(c) ==
    /\ session = "open" /\ pc[c] = "ts_url"
    /\ GetUrlLock(c, h[c], "ts_store")
    /\ UNCHANGED <<slot, slotLock, procVars, port, h, res, mine, seen, url, password, pwLock,
                   rpc, rline, lastUrl, lastPw, toPrint, envVars, scanVars, winVars>>

\* commands.rs 147-150: the result of start_tunnel for the url read at line 143
StartTunnelResult(u) == IF u # NoneStr THEN Res("OkUrl", FALSE, 0, u) ELSE Tag("ErrUrlNotAvailable")

\* ... .clone() of get_url, then commands.rs 145-150
start_tunnel_store(c) ==
    /\ session = "open" /\ pc[c] = "ts_store"
    /\ urlLock' = [urlLock EXCEPT ![h[c]] = None]
    /\ killIssued' = StoreKill("tunnel", killIssued)
    /\ slot' = SlotStore("tunnel", h[c])
    /\ h' = [h EXCEPT ![c] = None]
    /\ Finish(c, StartTunnelResult(url[h[c]]))
    /\ UNCHANGED <<slotLock, pstate, pkind, penv, pport, takeCount, port, mine, seen, url, password,
                   pwLock, rpc, rline, lastUrl, lastPw, toPrint, envVars, scanVars, winVars>>

\* -------------------------------------------------------------- stop_tunnel
stop_tunnel_call(c) ==
    /\ session = "open" /\ c \in callers /\ pc[c] = "idle"
    /\ pc' = [pc EXCEPT ![c] = "tp_lock"]
    /\ UNCHANGED <<slot, slotLock, procVars, port, h, res, mine, seen, tunVars, toPrint,
                   envVars, scanVars, winVars>>

stop_tunnel_take(c) == session = "open" /\ pc[c] = "tp_take" /\ StopTake(c, "tunnel")

stop_tunnel_kill(c) == session = "open" /\ pc[c] = "tp_kill" /\ StopKill(c)

\* -------------------------------------------------------- get_tunnel_status
get_tunnel_status_call(c) ==
    /\ session = "open" /\ c \in callers /\ pc[c] = "idle"
    /\ pc' = [pc EXCEPT ![c] = "gt_lock"]
    /\ UNCHANGED <<slot, slotLock, procVars, port, h, res, mine, seen, tunVars, toPrint,
                   envVars, scanVars, winVars>>

\* commands.rs 179-184 up to the lock().await inside get_url
get_tunnel_status_check(c) ==
    /\ session = "open" /\ pc[c] = "gt_check"
    /\ IF slot["tunnel"] # None
       THEN pc' = [pc EXCEPT ![c] = "gt_url"] /\ res' = res
       ELSE Finish(c, Res("OkStatus", FALSE, 0, NoneStr))
    /\ UNCHANGED <<slot, slotLock, procVars, port, h, mine, seen, tunVars, toPrint,
                   envVars, scanVars, winVars>>

get_tunnel_status_get_url(c) ==
    /\ session = "open" /\ pc[c] = "gt_url"
    /\ GetUrlLock(c, slot["tunnel"], "gt_read")
    /\ UNCHANGED <<slot, slotLock, procVars, port, h, res, mine, seen, url, password, pwLock,
                   rpc, rline, lastUrl, lastPw, toPrint, envVars, scanVars, winVars>>

get_tunnel_status_read(c) ==
    /\ session = "open" /\ pc[c] = "gt_read"
    /\ urlLock' = [urlLock EXCEPT ![slot["tunnel"]] = None]
    /\ Finish(c, Res("OkStatus", TRUE, 0, url[slot["tunnel"]]))
    /\ UNCHANGED <<slot, slotLock, procVars, port, h, mine, seen, url, password, pwLock,
                   rpc, rline, lastUrl, lastPw, toPrint, envVars, scanVars, winVars>>

\* ------------------------------------------- the stdout reader task (tunnel.rs 62-86)
\* where the task goes after the url part of a line / after the whole line
AfterUrl(line) == IF HasPwMarker(line) THEN "pw" ELSE "next"
AfterRead(line) == IF Contains(line, "U") THEN "url" ELSE AfterUrl(line)

\* lines.next_line().await: a line of the child, or the end of its output
\* (the loop ends and the task with it)
reader_next_line(p) ==
    /\ session = "open" /\ rpc[p] = "next"
    /\ IF pstate[p] = "running"
       THEN /\ toPrint > 0
            /\ toPrint' = toPrint - 1
            /\ \E line \in stdoutLines :
                 /\ rpc' = [rpc EXCEPT ![p] = AfterRead(line)]
                 /\ rline' = [rline EXCEPT ![p] = IF AfterRead(line) = "next" THEN <<>> ELSE line]
            /\ UNCHANGED <<url, password, lastUrl, lastPw>>
       ELSE /\ rline' = rline /\ toPrint' = toPrint
            /\ IF Reachable(p)
               THEN rpc' = [rpc EXCEPT ![p] = "eof"] /\ UNCHANGED <<url, password, lastUrl, lastPw>>
               ELSE /\ rpc' = [rpc EXCEPT ![p] = "freed"]
                    /\ url' = FreeCells(url, p) /\ password' = FreeCells(password, p)
                    /\ lastUrl' = FreeCells(lastUrl, p) /\ lastPw' = FreeCells(lastPw, p)
    /\ UNCHANGED <<slot, slotLock, procVars, callVars, urlLock, pwLock, envVars, scanVars, winVars>>

\* if line.contains("your url is:") ... url_clone.lock().await
reader_url(p) ==
    /\ session = "open" /\ rpc[p] = "url"
    /\ CellFree(urlLock, p)
    /\ urlLock' = [urlLock EXCEPT ![p] = ReaderTask]
    /\ rpc' = [rpc EXCEPT ![p] = "url_w"]
    /\ UNCHANGED <<slot, slotLock, procVars, callVars, url, password, pwLock, rline,
                   lastUrl, lastPw, toPrint, envVars, scanVars, winVars>>

\* *guard = Some(captured); the guard is dropped with the statement
ReaderUnlock_held(lk, p) == lk
ReaderUnlock(lk, p) == [lk EXCEPT ![p] = None]

reader_url_store(p) ==
    /\ session = "open" /\ rpc[p] = "url_w"
    /\ url' = [url EXCEPT ![p] = CapturedUrl(rline[p])]
    /\ lastUrl' = [lastUrl EXCEPT ![p] = rline[p]]
    /\ urlLock' = ReaderUnlock(urlLock, p)
    /\ rpc' = [rpc EXCEPT ![p] = AfterUrl(rline[p])]
    /\ rline' = [rline EXCEPT ![p] = IF AfterUrl(rline[p]) = "next" THEN <<>> ELSE @]
    /\ UNCHANGED <<slot, slotLock, procVars, callVars, password, pwLock, lastPw,
                   toPrint, envVars, scanVars, winVars>>

\* if line.contains("your password is:") || line.contains("your ip:") ...
\* password_clone.lock().await
reader_pw(p) ==
    /\ session = "open" /\ rpc[p] = "pw"
    /\ CellFree(pwLock, p)
    /\ pwLock' = [pwLock EXCEPT ![p] = ReaderTask]
    /\ rpc' = [rpc EXCEPT ![p] = "pw_w"]
    /\ UNCHANGED <<slot, slotLock, procVars, callVars, url, password, urlLock, rline,
                   lastUrl, lastPw, toPrint, envVars, scanVars, winVars>>

reader_pw_store(p) ==
    /\ session = "open" /\ rpc[p] = "pw_w"
    /\ password' = [password EXCEPT ![p] = CapturedPw(rline[p])]
    /\ lastPw' = [lastPw EXCEPT ![p] = rline[p]]
    /\ pwLock' = ReaderUnlock(pwLock, p)
    /\ rpc' = [rpc EXCEPT ![p] = "next"]
    /\ rline' = [rline EXCEPT ![p] = <<>>]
    /\ UNCHANGED <<slot, slotLock, procVars, callVars, url, urlLock, lastUrl,
                   toPrint, envVars, scanVars, winVars>>

\* ------------------------------------------------------------ the OS process
\* the child exits: on its own, or of a kill that was issued to it
ProcExit(p) ==
    /\ pstate[p] = "running"
    /\ pstate' = [pstate EXCEPT ![p] = "exited"]
    /\ toPrint' = toPrint
    /\ UNCHANGED <<slot, slotLock, pkind, penv, pport, killIssued, takeCount, callVars, tunVars,
                   envVars, scanVars, winVars>>

\* ------------------------------------------- window.rs: the auto-start task
progVars == <<slot, slotLock, pkind, penv, pport, takeCount, callVars, tunVars, toPrint, envVars, scanVars>>

\* window.rs 69-133: the sleep, then the server directory and the Node
\* executable are looked up; the task returns when one is missing
auto_prepare ==
    /\ session = "open" /\ apc = "sleep"
    /\ \E found \in BOOLEAN : apc' = IF found THEN "spawn" ELSE "done"
    /\ UNCHANGED <<progVars, pstate, killIssued, serverHandle, shLock, ah, wpc, wh, session>>

\* window.rs 137-139, 203-208: spawn_server
auto_spawn ==
    /\ session = "open" /\ apc = "spawn"
    /\ \/ /\ apc' = "done"
          /\ UNCHANGED <<pstate, pkind, penv, ah>>
       \/ /\ CanSpawn
          /\ pstate' = [pstate EXCEPT ![NewPid] = "running"]
          /\ pkind' = [pkind EXCEPT ![NewPid] = "auto"]
          /\ penv' = [penv EXCEPT ![NewPid] = NoEnv]
          /\ ah' = NewPid
          /\ apc' = "lock"
    /\ UNCHANGED <<slot, slotLock, pport, takeCount, callVars, tunVars, toPrint, envVars, scanVars,
                   killIssued, serverHandle, shLock, wpc, wh, session>>

\* window.rs 143-144: SERVER_HANDLE.lock().await; *handle = Some(child)
auto_store ==
    /\ session = "open" /\ apc = "lock"
    /\ shLock = "none"
    /\ shLock' = "auto"
    /\ killIssued' = IF serverHandle # None THEN kill_on_drop(killIssued, serverHandle)
                     ELSE killIssued
    /\ serverHandle' = ah
    /\ ah' = None
    /\ apc' = "ready"
    /\ UNCHANGED <<progVars, pstate, wpc, wh, session>>

\* window.rs 146-202: the readiness polling and the remote-access start run
\* with the guard alive; it is dropped at the end of the match arm
auto_ready ==
    /\ session = "open" /\ apc = "ready"
    /\ shLock' = "none"
    /\ apc' = "done"
    /\ UNCHANGED <<progVars, pstate, killIssued, serverHandle, ah, wpc, wh, session>>

\* ---------------------------------- window.rs 42-56: WindowEvent::CloseRequested
close_requested ==
    /\ session = "open" /\ wpc = "idle"
    /\ wpc' = "lock"
    /\ UNCHANGED <<progVars, pstate, killIssued, serverHandle, shLock, apc, ah, wh, session>>

\* SERVER_HANDLE.lock().await; handle.take()
close_take ==
    /\ session = "open" /\ wpc = "lock"
    /\ shLock = "none"
    /\ IF serverHandle # None
       THEN wh' = serverHandle /\ shLock' = "close" /\ wpc' = "kill"
       ELSE wh' = wh /\ shLock' = shLock /\ wpc' = "done"
    /\ serverHandle' = None
    /\ UNCHANGED <<progVars, pstate, killIssued, apc, ah, session>>

\* child.kill().await, then the child and the guard are dropped
close_kill ==
    /\ session = "open" /\ wpc = "kill"
    /\ \/ pstate' = KillWait(pstate, wh)
       \/ pstate[wh] = "exited" /\ pstate' = pstate
    /\ killIssued' = kill_on_drop(killIssued, wh)
    /\ wh' = None
    /\ shLock' = "none"
    /\ wpc' = "done"
    /\ UNCHANGED <<progVars, serverHandle, apc, ah, session>>

\* The window has closed and the application exits.  Whether the managed
\* state and the pending tasks are destroyed (unwind) or the process just
\* ends is the runtime's choice; a static is never dropped.
DropAll(ki, ps) ==
    [p \in Pids |-> IF p \in ps THEN Drop_drop(ki, p)[p] ELSE ki[p]]

session_end ==
    /\ session = "open" /\ wpc = "done"
    /\ session' = "ended"
    /\ \E unwind \in BOOLEAN :
         IF unwind
         THEN /\ killIssued' = DropAll(killIssued,
                    ({slot[k] : k \in Kinds} \cup {h[c] : c \in Callers} \cup {ah}) \ {None})
              /\ slot' = [k \in Kinds |-> None]
              /\ h' = [c \in Callers |-> None]
              /\ ah' = None
         ELSE UNCHANGED <<killIssued, slot, h, ah>>
    /\ UNCHANGED <<slotLock, pstate, pkind, penv, pport, takeCount, pc, port, res, mine, seen,
                   tunVars, toPrint, envVars, scanVars, serverHandle, shLock, apc, wpc, wh>>

\* ------------------------------------------------------------- specification
Command(c) ==
    \/ \E p \in Ports : start_server_call(c, p)
    \/ start_server_check(c)
    \/ start_server_spawn(c)
    \/ stop_server_call(c)
    \/ stop_server_take(c)
    \/ stop_server_kill(c)
    \/ get_server_status_call(c)
    \/ get_server_status_read(c)
    \/ \E p \in TunnelPorts : start_tunnel_call(c, p)
    \/ start_tunnel_check(c)
    \/ start_tunnel_spawn(c)
    \/ start_tunnel_get_url(c)
    \/ start_tunnel_store(c)
    \/ stop_tunnel_call(c)
    \/ stop_tunnel_take(c)
    \/ stop_tunnel_kill(c)
    \/ get_tunnel_status_call(c)
    \/ get_tunnel_status_check(c)
    \/ get_tunnel_status_get_url(c)
    \/ get_tunnel_status_read(c)
    \/ LockSlot(c)
    \/ Return(c)

Reader(p) ==
    \/ reader_next_line(p)
    \/ reader_url(p)
    \/ reader_url_store(p)
    \/ reader_pw(p)
    \/ reader_pw_store(p)

Next ==
    \/ \E c \in Callers : Command(c)
    \/ \E p \in Pids : Reader(p)
    \/ \E p \in Pids : ProcExit(p)

Spec == Init /\ [][Next]_vars

\* the commands together with the code of window.rs
Window ==
    \/ auto_prepare
    \/ auto_spawn
    \/ auto_store
    \/ auto_ready
    \/ close_requested
    \/ close_take
    \/ close_kill
    \/ session_end

InitSession == InitCommon /\ stdoutLines = FewLines /\ toPrint = 1 /\ callers = {1}

NextSession == Next \/ Window

SpecSession == InitSession /\ [][NextSession]_vars


\* the OS ends a process to which a kill was issued
KillTakesEffect(p) == killIssued[p] /\ ProcExit(p)

FairSession == SpecSession /\ \A p \in Pids : WF_vars(KillTakesEffect(p))

\* ==================================================================== claims
Supervised(p) == pkind[p] \in {"server", "tunnel"}

\* C1: whenever the handle of a backend or tunnel child is no longer held by
\* the slot or by a running call (it was dropped: the slot torn down, stop
\* returning, a start failing after the spawn), a kill has been issued to
\* the child if it is still running, and the child eventually stops running.
C1_DroppedHandleKillsChild ==
    /\ [](\A p \in Pids : Supervised(p) /\ ~Reachable(p) /\ pstate[p] = "running"
                            => killIssued[p])
    /\ \A p \in Pids : (Supervised(p) /\ ~Reachable(p)) ~> (pstate[p] # "running")

\* a running child whose handle was destroyed without stop, and which got a kill
C1_Witness ==
    \E p \in Pids : /\ Supervised(p) /\ ~Reachable(p) /\ takeCount[p] = 0
                    /\ pstate[p] = "running" /\ killIssued[p]

\* C2: once the session has ended, every process the application spawned
\* (auto-started backend, start_server, start_tunnel) has been killed.
C2_NoOrphanAfterSession ==
    session = "ended" => \A p \in Pids : pstate[p] = "running" => killIssued[p]


\* the call of caller c that is returning holds the lock of slot k
Returning(c, k) == pc[c] = "ret" /\ slotLock[k] = c
\* caller c takes the step on which its call produces its result
Decides(c) == pc[c] # "ret" /\ pc'[c] = "ret"
StartChecks == {"ss_check", "ts_check"}
StopTakes == {"sp_take", "tp_take"}
Rejections == {"ErrAlreadyRunning", "ErrNotRunning"}

\* C3: a start that finds its slot occupied returns 'already running', has
\* spawned nothing and leaves the stored handle in place; a stop that finds
\* its slot Empty returns 'not running', kills nothing and leaves the slot
\* Empty.  A rejection changes neither the slot nor any process.
C3_PreconditionViolations ==
    /\ [](\A c \in Callers : \A k \in Kinds : Returning(c, k) =>
            /\ res[c].tag = "ErrAlreadyRunning"
                 => seen[c] # None /\ slot[k] = seen[c] /\ mine[c] = None
            /\ res[c].tag = "ErrNotRunning"
                 => seen[c] = None /\ slot[k] = None /\ h[c] = None)
    /\ [][\A c \in Callers :
            /\ Decides(c) /\ res'[c].tag \in Rejections
                 => UNCHANGED <<slot, pstate, pkind, killIssued, takeCount>>
            /\ pc[c] \in StartChecks /\ pc'[c] # pc[c] /\ slot[KindOf(c)] # None
                 => Decides(c) /\ res'[c].tag = "ErrAlreadyRunning"
            /\ pc[c] \in StopTakes /\ pc'[c] # pc[c] /\ slot[KindOf(c)] = None
                 => Decides(c) /\ res'[c].tag = "ErrNotRunning"]_vars

\* one caller is told 'already running' over a running child while another
\* is told 'not running' by the other kind's stop
C3_Witness ==
    \E c, d \in Callers : \E k, j \in Kinds :
        /\ Returning(c, k) /\ res[c].tag = "ErrAlreadyRunning"
        /\ pstate[slot[k]] = "running"
        /\ Returning(d, j) /\ res[d].tag = "ErrNotRunning"

\* C4: of the stops that race for a Running slot exactly one takes the handle
\* and kills its process: a handle is taken out of its slot at most once and
\* no two calls hold the same handle.
C4_OneStopperPerHandle ==
    /\ \A p \in Pids : takeCount[p] <= 1
    /\ \A c, d \in Callers : c # d /\ h[c] # None => h[c] # h[d]
    /\ \A c \in Callers : h[c] # None => \A k \in Kinds : slot[k] # h[c]

\* one stop holds the handle it took while a second stop of the same kind
\* waits for the slot
C4_Witness ==
    \E c, d \in Callers :
        /\ pc[c] = "sp_kill" /\ h[c] # None /\ pstate[h[c]] = "running"
        /\ pc[d] = "sp_lock"

RunningOf(k) == {p \in Pids : pkind[p] = k /\ pstate[p] = "running"}

\* C5: at most one process of a kind that start spawned is running.
C5_AtMostOneRunning == \A k \in Kinds : Cardinality(RunningOf(k)) <= 1

\* a start is about to spawn after an earlier process of its kind was stopped,
\* while a second start of that kind waits
C5_Witness ==
    \E c, d \in Callers : \E p \in Pids :
        /\ pc[c] = "ss_spawn" /\ pc[d] = "ss_lock"
        /\ pkind[p] = "server" /\ pstate[p] = "exited"

StartErrors == {"ErrPort", "ErrAlreadyRunning", "ErrCheckPort", "ErrSpawn",
                "ErrUrlNotAvailable"}
StartErrorCauses == {"ErrPort", "ErrAlreadyRunning", "ErrCheckPort", "ErrSpawn"}

\* C6: a start returns an error only for a port below MIN_PORT, an occupied
\* slot or a failed spawn or port pre-check, and on every error return the
\* slot is as the call found it and the call has left no process running.
C6_StartErrorsLeaveNothing ==
    \A c \in Callers : pc[c] = "ret" /\ res[c].tag \in StartErrors =>
        /\ res[c].tag \in StartErrorCauses
        /\ \A k \in Kinds : slotLock[k] = c => slot[k] = seen[c]
        /\ mine[c] # None => pstate[mine[c]] # "running"


\* the slot of kind k is Running on the handle that the returning call spawned
HoldsOwnHandle(c, k) ==
    /\ mine[c] # None /\ slot[k] = mine[c] /\ pkind[mine[c]] = k
    /\ pstate[mine[c]] # "unborn"
    /\ Occupied(k)

\* what get_server_status reports, whatever the probe of DEFAULT_PORT finds
ReportsRunningOn(p) ==
    \A portInUse \in BOOLEAN :
        ServerStatus(portInUse).running /\ ServerStatus(portInUse).port = p

StartSuccesses == {"OkStarted", "OkExternal", "OkUrl"}

\* C7 as stated: whenever a start returns success, its slot is Running on
\* the handle the call spawned, for the server with the requested port.
C7_SuccessMeansRunning_AsStated ==
    \A c \in Callers : \A k \in Kinds :
        Returning(c, k) /\ res[c].tag \in StartSuccesses =>
            /\ HoldsOwnHandle(c, k)
            /\ k = "server" => pport[slot[k]] = port[c] /\ ReportsRunningOn(port[c])

\* C7: whenever start_server returns 'Server started' or start_tunnel returns
\* a url, the slot is Running on the handle the call spawned (for the server
\* with the requested port, which the status query reports); when
\* start_server returns success because the port pre-check found the port in
\* use, it has spawned nothing and the slot is still Empty.
C7_SuccessMeansRunning ==
    \A c \in Callers : \A k \in Kinds : Returning(c, k) =>
        /\ res[c].tag = "OkStarted" =>
              /\ k = "server" /\ HoldsOwnHandle(c, k)
              /\ pport[slot[k]] = port[c] /\ ReportsRunningOn(port[c])
        /\ res[c].tag = "OkUrl" =>
              /\ k = "tunnel" /\ HoldsOwnHandle(c, k)
              /\ res[c].url # NoneStr
        /\ res[c].tag = "OkExternal" =>
              k = "server" /\ slot[k] = None /\ mine[c] = None /\ seen[c] = None

\* start_server returns success for a port other than the default one, with
\* its own running child in the slot
C7_Witness ==
    \E c \in Callers :
        /\ Returning(c, "server") /\ res[c].tag = "OkStarted" /\ port[c] = MIN_PORT
        /\ pstate[slot["server"]] = "running"

Stopped(p) == takeCount[p] > 0 /\ \A c \in Callers : h[c] # p

\* C8: when stop returns for an occupied slot, whether the kill succeeded or
\* failed, the slot is Empty; the process it removed is not running and stays
\* so, is never in a slot again, and so is never what makes a later start
\* answer 'already running'.
C8_StoppedForGood ==
    /\ [](\A c \in Callers : \A k \in Kinds :
            Returning(c, k) /\ res[c].tag \in {"OkStopped", "ErrKill"}
                => slot[k] = None /\ seen[c] # None /\ Stopped(seen[c]))
    /\ [](\A p \in Pids : Stopped(p) =>
            /\ pstate[p] = "exited"
            /\ \A k \in Kinds : slot[k] # p
            /\ \A c \in Callers : pc[c] = "ret" /\ res[c].tag = "ErrAlreadyRunning"
                                     => seen[c] # p)
    /\ [][\A p \in Pids : Stopped(p) => Stopped(p)' /\ pstate'[p] = "exited"]_vars

\* after a stop whose kill failed, a later start has put a new process in the slot
C8_Witness ==
    \E p, q \in Pids : \E c \in Callers :
        /\ Stopped(p) /\ pstate[p] = "exited" /\ pkind[p] = "tunnel"
        /\ pkind[q] = "server" /\ takeCount[q] = 1
        /\ Returning(c, "server") /\ res[c].tag = "ErrKill"


\* the steps of a call that wait for nothing: tokio runs a task that is ready
Proceed(c) ==
    \/ start_server_check(c) \/ start_server_spawn(c)
    \/ stop_server_take(c) \/ stop_server_kill(c)
    \/ get_server_status_read(c)
    \/ start_tunnel_check(c) \/ start_tunnel_spawn(c) \/ start_tunnel_store(c)
    \/ stop_tunnel_take(c) \/ stop_tunnel_kill(c)
    \/ get_tunnel_status_check(c) \/ get_tunnel_status_read(c)
    \/ Return(c)

\* the steps of a call that complete a lock().await: tokio's Mutex hands the
\* lock to its waiters in the order in which they asked
Acquire(c) == LockSlot(c) \/ start_tunnel_get_url(c) \/ get_tunnel_status_get_url(c)

\* the reader task's steps from a lock().await to the drop of its guard
ReaderProceed(p) == reader_url(p) \/ reader_url_store(p) \/ reader_pw(p) \/ reader_pw_store(p)

\* a line of the child that carries both a url marker and a password marker
OneLine == {<<"U", "I">>}
InitLocks == InitCommon /\ stdoutLines = OneLine /\ toPrint = 1 /\ callers = Callers

FairSpec ==
    /\ InitLocks /\ [][Next]_vars
    /\ \A c \in Callers : WF_vars(Proceed(c)) /\ SF_vars(Acquire(c))
    /\ \A p \in Pids : WF_vars(ReaderProceed(p))

\* C9: a call that holds or waits for a url lock holds the tunnel slot's
\* lock, the reader task holds no slot lock and at most one cell lock, no
\* command takes the password lock, and every command that has been called
\* returns.
C9_NoDeadlock ==
    /\ [](\A p \in Pids : \A c \in Callers :
            urlLock[p] = c => slotLock["tunnel"] = c /\ pc[c] \in {"ts_store", "gt_read"})
    /\ [](\A c \in Callers : pc[c] \in {"ts_url", "gt_url"} => slotLock["tunnel"] = c)
    /\ [](\A k \in Kinds : slotLock[k] \in Callers \cup {None})
    /\ [](\A p \in Pids : /\ pwLock[p] \in {None, ReaderTask}
                          /\ ~(urlLock[p] = ReaderTask /\ pwLock[p] = ReaderTask))
    /\ \A c \in Callers : (pc[c] # "idle") ~> (pc[c] = "idle")

\* get_tunnel_status, holding the slot lock, waits for the url lock that the
\* reader task holds, while a second command waits for the slot lock
C9_Witness ==
    \E c, d \in Callers : \E p \in Pids :
        /\ pc[c] = "gt_url" /\ slot["tunnel"] = p /\ urlLock[p] = ReaderTask
        /\ pc[d] = "tp_lock"


\* ------------------------------------------------ the tunnel and its output
MaxLines == 2        \* lines that the tunnel clients print during one run

InitOutput == InitCommon /\ stdoutLines = AllLines /\ toPrint = MaxLines /\ callers = {1}

TunnelCommand(c) ==
    \/ \E p \in TunnelPorts : start_tunnel_call(c, p)
    \/ start_tunnel_check(c)
    \/ start_tunnel_spawn(c)
    \/ start_tunnel_get_url(c)
    \/ start_tunnel_store(c)
    \/ stop_tunnel_call(c)
    \/ stop_tunnel_take(c)
    \/ stop_tunnel_kill(c)
    \/ get_tunnel_status_call(c)
    \/ get_tunnel_status_check(c)
    \/ get_tunnel_status_get_url(c)
    \/ get_tunnel_status_read(c)
    \/ LockSlot(c)
    \/ Return(c)

NextOutput ==
    \/ \E c \in Callers : TunnelCommand(c)
    \/ \E p \in Pids : Reader(p)
    \/ \E p \in Pids : ProcExit(p)

SpecOutput == InitOutput /\ [][NextOutput]_vars

\* the cells of tunnel p exist: its reader task or its handle is alive
Live(p) == rpc[p] \notin {"off", "freed"}

\* s consists of whitespace only
IsBlank(s) == \A i \in 1..Len(s) : s[i] = "_"

\* v is s without its leading and trailing whitespace
IsTrimOf(v, s) ==
    \E a, b \in 0..Len(s) :
        /\ a + b <= Len(s)
        /\ v = SubSeq(s, a + 1, Len(s) - b)
        /\ IsBlank(SubSeq(s, 1, a)) /\ IsBlank(SubSeq(s, Len(s) - b + 1, Len(s)))
        /\ v # <<>> => v[1] # "_" /\ v[Len(v)] # "_"

\* the occurrences of marker m in the line
Occurrences(line, m) == {i \in 1..Len(line) : line[i] = m}
First(S) == CHOOSE i \in S : \A j \in S : i <= j

\* everything that follows the first occurrence of marker m in the line
AfterMarker(line, m) == SubSeq(line, First(Occurrences(line, m)) + 1, Len(line))

\* what follows the first occurrence of m, up to its next occurrence
Between(line, m) ==
    LET i == First(Occurrences(line, m))
        later == {j \in Occurrences(line, m) : j > i}
    IN  SubSeq(line, i + 1, IF later = {} THEN Len(line) ELSE First(later) - 1)

\* the marker of a password line that the value is taken from
PwMarker(line) == IF Occurrences(line, "P") # {} THEN "P" ELSE "I"

UrlAsStated(v, line) ==
    IF line = NoneStr THEN v = NoneStr ELSE IsTrimOf(v, AfterMarker(line, "U"))
PwAsStated(v, line) ==
    IF line = NoneStr THEN v = NoneStr ELSE IsTrimOf(v, AfterMarker(line, PwMarker(line)))

\* C10 as stated: the url is None until a line with the url marker has been
\* processed and is then the trimmed text after the marker in the latest
\* such line; the password likewise for its markers.
C10_CapturedValues_AsStated ==
    \A p \in Pids : Live(p) =>
        /\ UrlAsStated(url[p], lastUrl[p])
        /\ PwAsStated(password[p], lastPw[p])

IsUrlOf(v, line) ==
    IF line = NoneStr THEN v = NoneStr ELSE IsTrimOf(v, Between(line, "U"))
IsPwOf(v, line) ==
    IF line = NoneStr THEN v = NoneStr ELSE IsTrimOf(v, Between(line, PwMarker(line)))

\* C10: the url is None until the reader has processed a line holding the
\* url marker and is then the trimmed text between the first occurrence of
\* the marker and its next occurrence (or the end of the line) in the latest
\* such line; the password likewise, for 'your password is:' when the line
\* holds it and for 'your ip:' otherwise.  A cell is read and written only
\* under its lock, a read returns the cell's whole value, a write to one
\* cell leaves the other alone, and a cell never goes back from a value to None.
C10_CapturedValues ==
    /\ [](\A p \in Pids : Live(p) =>
            /\ IsUrlOf(url[p], lastUrl[p])
            /\ IsPwOf(password[p], lastPw[p])
            /\ rpc[p] = "url_w" => urlLock[p] = ReaderTask
            /\ rpc[p] = "pw_w" => pwLock[p] = ReaderTask)
    /\ [](\A c \in Callers :
            /\ pc[c] = "gt_read" => urlLock[slot["tunnel"]] = c
            /\ pc[c] = "ts_store" => urlLock[h[c]] = c)
    /\ [][\A p \in Pids :
            /\ Live(p)' /\ url[p] # NoneStr => url'[p] # NoneStr
            /\ Live(p)' /\ password[p] # NoneStr => password'[p] # NoneStr
            /\ url'[p] # url[p] /\ Live(p)' => password'[p] = password[p]
            /\ password'[p] # password[p] /\ Live(p)' => url'[p] = url[p]]_vars
    /\ [][\A c \in Callers :
            /\ pc[c] = "gt_read" /\ Decides(c)
                 => IsUrlOf(res'[c].url, lastUrl[slot["tunnel"]])
            /\ pc[c] = "ts_store" /\ Decides(c) /\ res'[c].tag = "OkUrl"
                 => IsUrlOf(res'[c].url, lastUrl[h[c]])]_vars

\* after a password line, the status query returns the url captured from a
\* line that repeats the url marker
C10_Witness ==
    \E c \in Callers : \E p \in Pids :
        /\ pc[c] = "ret" /\ res[c].tag = "OkStatus" /\ res[c].running
        /\ slot["tunnel"] = p /\ toPrint = 0 /\ pstate[p] = "running"
        /\ lastUrl[p] = <<"U", "U">> /\ res[c].url = <<>> /\ url[p] = <<>>
        /\ password[p] = <<"a">>


\* ------------------------------------------------------ scanner.rs: scan_host
supVars == <<slot, slotLock, procVars, callVars, tunVars, toPrint, envVars, winVars>>

Probe(p, b) == [port |-> p, batch |-> b, out |-> "pending"]

\* scan_host(host, options) with options.ports = Some(ports): lines 145-152
scan_host_call(ports, par, os, ver) ==
    /\ spc = "idle"
    /\ opts' = ScanOptions(ports, par, os, ver, FALSE)
    /\ unchunked' = ports
    /\ ran' = <<"scan_host">>
    /\ spc' = "chunk"
    /\ UNCHANGED <<supVars, tospawn, probes, batch, awaiting, open_ports, closed_ports,
                   completed, result, svc_i, sret, target, avail, nmap_run, fpVars>>

\* for chunk in ports_to_scan.chunks(batch_size): the next chunk, or the end
\* of the loop and lines 175-185
scan_chunk ==
    /\ spc = "chunk"
    /\ IF unchunked # <<>>
       THEN /\ tospawn' = NextChunk(unchunked, opts.parallelism)
            /\ unchunked' = AfterChunk(unchunked, opts.parallelism)
            /\ batch' = batch + 1
            /\ awaiting' = Len(probes) + 1
            /\ spc' = "spawn"
            /\ UNCHANGED <<result, svc_i>>
       ELSE /\ result' = ScanResult(LOCALHOST, open_ports,
                                    IF opts.os_detection THEN detect_os(open_ports) ELSE NoneOs,
                                    <<>>, "scan_host")
            /\ svc_i' = 1
            /\ spc' = "services"
            /\ UNCHANGED <<tospawn, unchunked, batch, awaiting>>
    /\ UNCHANGED <<supVars, opts, probes, open_ports, closed_ports, completed, sret,
                   target, avail, nmap_run, ran, fpVars>>

\* tasks.push(tokio::spawn(probe_port(..))) for one port of the chunk
scan_spawn ==
    /\ spc = "spawn"
    /\ IF tospawn # <<>>
       THEN /\ probes' = Append(probes, Probe(Head(tospawn), batch))
            /\ tospawn' = Tail(tospawn)
            /\ spc' = spc
       ELSE spc' = "await" /\ UNCHANGED <<probes, tospawn>>
    /\ UNCHANGED <<supVars, opts, unchunked, batch, awaiting, open_ports, closed_ports,
                   completed, result, svc_i, sret, target, avail, nmap_run, ran, fpVars>>

\* a probe task runs to its end
probe_complete(i) ==
    /\ i \in 1..Len(probes) /\ probes[i].out = "pending"
    /\ \E o \in target[probes[i].port] : probes' = [probes EXCEPT ![i].out = o]
    /\ completed' = Append(completed, i)
    /\ UNCHANGED <<supVars, spc, opts, unchunked, tospawn, batch, awaiting, open_ports,
                   closed_ports, result, svc_i, sret, target, avail, nmap_run, ran, fpVars>>

\* Vec::push
Push_front(v, x) == <<x>> \o v
Push(v, x) == Append(v, x)

\* task.await returns when the task has completed
TaskDone_nowait(pr) == TRUE
TaskDone(pr) == pr.out # "pending"

\* for task in tasks { if let Ok(Some(port_info)) = task.await { match .. } }
scan_await ==
    /\ spc = "await"
    /\ IF awaiting <= Len(probes)
       THEN /\ TaskDone(probes[awaiting])
            /\ LET info == Join(probes[awaiting]) IN
               /\ open_ports' = IF info.status = "Open" THEN Push(open_ports, info)
                                ELSE open_ports
               /\ closed_ports' = IF info.status = "Closed" THEN Push(closed_ports, info)
                                  ELSE closed_ports
            /\ awaiting' = awaiting + 1
            /\ spc' = spc
       ELSE spc' = "chunk" /\ UNCHANGED <<open_ports, closed_ports, awaiting>>
    /\ UNCHANGED <<supVars, opts, unchunked, tospawn, probes, batch, completed, result,
                   svc_i, sret, target, avail, nmap_run, ran, fpVars>>

\* detect_service_version (scanner.rs 267-312), by what it can return for an
\* open port: None, or a ServiceInfo named after port.service, which
\* probe_port leaves None
Versions == {"None", "1.18.0"}
Fingerprinted(p) == {ServiceInfo("unknown", v, "banner", p, "detect_service_version") : v \in Versions}

Ok(report) == [tag |-> "Ok", reports |-> <<report>>, text |-> <<>>]

\* lines 188-211: one round of the loop over open_ports, or the return
scan_services ==
    /\ spc = "services"
    /\ IF svc_i <= Len(open_ports)
       THEN /\ LET p == open_ports[svc_i].port IN
               IF opts.version_detection
               THEN \/ result' = result
                    \/ \E sv \in Fingerprinted(p) :
                         result' = [result EXCEPT !.services = Append(@, sv)]
               ELSE result' =
                      IF Fingerprint(p) # NoName
                      THEN [result EXCEPT !.services =
                              Append(@, ServiceInfo(Fingerprint(p), "None", "None", p,
                                                    "SERVICE_FINGERPRINTS"))]
                      ELSE result
            /\ svc_i' = svc_i + 1
            /\ UNCHANGED <<spc, sret>>
       ELSE /\ sret' = Ok(result)
            /\ spc' = "ret"
            /\ UNCHANGED <<result, svc_i>>
    /\ UNCHANGED <<supVars, opts, unchunked, tospawn, probes, batch, awaiting, open_ports,
                   closed_ports, completed, target, avail, nmap_run, ran, fpVars>>

\* the call has returned: its locals are gone
scan_return ==
    /\ spc = "ret"
    /\ spc' = "idle" /\ opts' = NoOpts /\ unchunked' = <<>> /\ tospawn' = <<>>
    /\ probes' = <<>> /\ batch' = 0 /\ awaiting' = 0
    /\ open_ports' = <<>> /\ closed_ports' = <<>> /\ completed' = <<>>
    /\ result' = NoResult /\ svc_i' = 0 /\ sret' = NoRet
    /\ avail' = "unchecked" /\ nmap_run' = NoRun /\ ran' = <<>>
    /\ UNCHANGED <<supVars, target, fpVars>>

ScanHost ==
    \/ scan_chunk
    \/ scan_spawn
    \/ \E i \in 1..MaxPorts : probe_complete(i)
    \/ scan_await
    \/ scan_services
    \/ scan_return

InitScan == InitSupervisor /\ ScanIdle /\ target = AnyTarget
               /\ stdoutLines = {} /\ toPrint = 0 /\ callers = {}

NextScan ==
    \/ \E ports \in PortLists, par \in Pars, os, ver \in BOOLEAN :
          scan_host_call(ports, par, os, ver)
    \/ ScanHost

SpecScan == InitScan /\ [][NextScan]_vars


\* the probes that have been started and have not completed
InFlight == {i \in 1..Len(probes) : probes[i].out = "pending"}
BatchOf(b) == {i \in 1..Len(probes) : probes[i].batch = b}

\* C11: during scan_host all in-flight probes belong to one batch and there
\* are at most options.parallelism of them; a probe is started only when
\* every probe of the earlier batches has completed.
C11_OneBatchInFlight ==
    /\ [](/\ \A i, j \in InFlight : probes[i].batch = probes[j].batch
          /\ Cardinality(InFlight) <= opts.parallelism
          /\ \A b \in 1..MaxPorts : Cardinality(BatchOf(b)) <= opts.parallelism)
    /\ [][Len(probes') > Len(probes) =>
            \A i \in 1..Len(probes) :
                probes[i].batch < probes'[Len(probes')].batch => probes[i].out # "pending"]_vars

\* a probe of the second batch is in flight after the two probes of the first
\* batch ended in a timeout and in a fault
C11_Witness ==
    /\ opts.parallelism = 2 /\ batch = 2 /\ InFlight = {3}
    /\ probes[1].out = "timeout" /\ probes[2].out = "fault"


\* scan_host is returning its report
Reporting == spc = "ret" /\ sret.tag = "Ok" /\ sret.reports[1].by = "scan_host"
Reported == sret.reports[1].ports
Connected == {i \in 1..Len(probes) : probes[i].out = "ok"}

\* C12: a port is in the report of scan_host exactly when it was requested
\* and the connect of its probe succeeded within the timeout; every entry is
\* Open, and without a successful connect the port list is empty.
C12_ReportIsOpenPorts ==
    Reporting =>
        /\ Len(probes) = Len(opts.ports)
        /\ \A i \in 1..Len(probes) : probes[i].port = opts.ports[i]
        /\ \A q \in ScanPorts :
              (\E k \in 1..Len(Reported) : Reported[k].port = q)
                 <=> (\E i \in Connected : opts.ports[i] = q)
        /\ \A k \in 1..Len(Reported) : Reported[k].status = "Open"
        /\ Len(Reported) = Cardinality(Connected)

\* of three requested ports one connected, one refused and one timed out:
\* the report holds the first only
C12_Witness ==
    /\ Reporting /\ opts.ports = <<3389, 22, 9000>>
    /\ probes[1].out = "refused" /\ probes[2].out = "ok" /\ probes[3].out = "timeout"
    /\ Reported = <<PortInfo(22, "Open")>>


\* place of port q in the report, of probe i in the order of completion and
\* of port q in the requested list
ReportedAt(q) == CHOOSE k \in 1..Len(Reported) : Reported[k].port = q
CompletedAt(i) == CHOOSE k \in 1..Len(completed) : completed[k] = i
RequestedAt(q) == CHOOSE k \in 1..Len(opts.ports) : opts.ports[k] = q

InitStatic == InitSupervisor /\ ScanIdle /\ target \in StaticTargets
                 /\ stdoutLines = {} /\ toPrint = 0 /\ callers = {}

SpecStatic == InitStatic /\ [][NextScan]_vars

\* the requested ports on which the target accepts connections
Listening == {q \in ScanPorts : (\E k \in 1..Len(opts.ports) : opts.ports[k] = q)
                                   /\ target[q] = {"ok"}}

\* C14: on a static target the set of Open ports that scan_host reports is
\* the set of requested ports that accept connections, the same for every
\* parallelism (1, 2 and 100 here): it depends on the list and the target only.
C14_SameOpenSet ==
    Reporting =>
        /\ opts.parallelism \in Pars
        /\ {Reported[k].port : k \in 1..Len(Reported)} = Listening

\* three ports scanned one per batch, two of them listening
C14_Witness ==
    /\ Reporting /\ opts.parallelism = 1 /\ batch = 3
    /\ opts.ports = <<22, 3389, 9000>>
    /\ target[22] = {"ok"} /\ target[3389] = {"timeout"} /\ target[9000] = {"ok"}
    /\ Reported = <<PortInfo(22, "Open"), PortInfo(9000, "Open")>>


\* ------------------------------------------------- probe_port and its caller
\* the probes whose task.await has returned
Awaited == {i \in 1..Len(probes) : i < awaiting}
InOpen(q) == \E k \in 1..Len(open_ports) : open_ports[k].port = q /\ open_ports[k].status = "Open"
InClosed(q) == \E k \in 1..Len(closed_ports) : closed_ports[k].port = q /\ closed_ports[k].status = "Closed"

\* C15: the result of a probe is Open when its connect succeeded in time,
\* Closed when it was refused in time and absent when it timed out, never
\* two of these; and the scan returns Ok, not an error, whatever timed out.
C15_ProbeClassification ==
    /\ \A i \in Awaited :
          LET q == probes[i].port
              o == probes[i].out
          IN /\ o = "ok" => InOpen(q) /\ ~InClosed(q)
             /\ o = "refused" => InClosed(q) /\ ~InOpen(q)
             /\ o = "timeout" => ~InOpen(q) /\ ~InClosed(q)
    /\ spc = "ret" => sret.tag = "Ok" /\ Len(sret.reports) = 1

\* one probe of each kind has been awaited and the scan has returned Ok
C15_Witness ==
    /\ spc = "ret" /\ sret.tag = "Ok" /\ Awaited = {1, 2, 3}
    /\ probes[1].out = "timeout" /\ probes[2].out = "ok" /\ probes[3].out = "refused"
    /\ open_ports = <<PortInfo(probes[2].port, "Open")>>
    /\ closed_ports = <<PortInfo(probes[3].port, "Closed")>>


\* ------------------------------------------------------ faults of probe tasks
Faulted == {i \in 1..Len(probes) : probes[i].out = "fault"}
IsSound(pr) == pr.out # "fault"
IsOk(pr) == pr.out = "ok"
\* the report of the same scan without the faulted probes in the list
ReportWithout == LET others == SelectSeq(probes, IsSound)
                     conn == SelectSeq(others, IsOk)
                 IN [k \in 1..Len(conn) |-> PortInfo(conn[k].port, "Open")]

\* C16: when probe tasks fault, scan_host still returns Ok with exactly one
\* report; the ports of the faulted probes are not in it and the other ports
\* are reported as by a scan of the list without the faulted ones.
C16_FaultAbsorbed ==
    (spc = "ret" /\ Faulted # {}) =>
        /\ sret.tag = "Ok" /\ Len(sret.reports) = 1
        /\ \A i \in Faulted : \A k \in 1..Len(Reported) : Reported[k].port # probes[i].port
        /\ Reported = ReportWithout

\* the probe of the second of three ports faulted, the other two connected
C16_Witness ==
    /\ spc = "ret" /\ Faulted = {2} /\ Connected = {1, 3}
    /\ sret = Ok(result)
    /\ Reported = <<PortInfo(opts.ports[1], "Open"), PortInfo(opts.ports[3], "Open")>>


\* ------------------------------------------------ post-processing (175-209)
HasEntry(pi) == \E i \in 1..Len(SERVICE_FINGERPRINTS) : SERVICE_FINGERPRINTS[i][1] = pi.port
\* the Open ports of the report that have an entry in the table, in report order
Tabled == SelectSeq(result.ports, HasEntry)
AllAwaited == unchunked = <<>> /\ tospawn = <<>> /\ InFlight = {}
                 /\ Len(probes) = Len(opts.ports) /\ Awaited = 1..Len(probes)

\* C17: the result is built only when every batch has been spawned and
\* awaited, from the whole list of Open ports; os_guess is None when
\* os_detection is off; with version_detection off the services are the
\* table names (no version, no info) of the Open ports that have an entry,
\* in report order; with version_detection on they all come from
\* detect_service_version, at most one for each Open port.
C17_PostProcessing ==
    /\ spc \in {"chunk", "spawn", "await"} => result = NoResult
    /\ spc \in {"services", "ret"} =>
          /\ AllAwaited
          /\ result.ports = open_ports
          /\ Len(open_ports) = Cardinality(Connected)
          /\ ~opts.os_detection => result.os_guess = NoneOs
          /\ opts.os_detection => (result.os_guess = NoneOs <=> Connected = {})
    /\ (spc = "ret" /\ ~opts.version_detection) =>
          /\ sret.reports[1] = result
          /\ Len(result.services) = Len(Tabled)
          /\ \A k \in 1..Len(result.services) :
                LET sv == result.services[k] IN
                /\ sv.port = Tabled[k].port
                /\ \E i \in 1..Len(SERVICE_FINGERPRINTS) :
                      SERVICE_FINGERPRINTS[i] = <<sv.port, sv.name>>
                /\ sv.version = "None" /\ sv.info = "None"
    /\ (spc = "ret" /\ opts.version_detection) =>
          /\ sret.reports[1] = result
          /\ \A k \in 1..Len(result.services) :
                /\ result.services[k].by = "detect_service_version"
                /\ \E j \in 1..Len(Reported) : Reported[j].port = result.services[k].port
          /\ \A k, l \in 1..Len(result.services) :
                result.services[k].port = result.services[l].port => k = l

\* three Open ports, two of them in the table, listed in a second and a
\* third batch; no os detection, no version detection
C17_Witness ==
    /\ spc = "ret" /\ ~opts.os_detection /\ ~opts.version_detection
    /\ opts.ports = <<3389, 9000, 22>> /\ opts.parallelism = 1 /\ Connected = {1, 2, 3}
    /\ result.os_guess = NoneOs
    /\ result.services = <<ServiceInfo("rdp", "None", "None", 3389, "SERVICE_FINGERPRINTS"),
                           ServiceInfo("ssh", "None", "None", 22, "SERVICE_FINGERPRINTS")>>


\* ---------------------------------------------------- scanner.rs: detect_os
MaxOpen == 3
\* the ports detect_os tells apart, and one it does not
OsPorts == WindowsPorts \cup UnixPorts \cup {80}
OpenLists == UNION {[1..n -> {PortInfo(q, "Open") : q \in OsPorts}] : n \in 0..MaxOpen}

InitOs == InitSupervisor /\ stdoutLines = {} /\ toPrint = 0 /\ callers = {}
             /\ target = AnyTarget
             /\ spc = "detect_os" /\ open_ports \in OpenLists
             /\ opts = NoOpts /\ unchunked = <<>> /\ tospawn = <<>>
             /\ probes = <<>> /\ batch = 0 /\ awaiting = 0
             /\ closed_ports = <<>> /\ completed = <<>>
             /\ result = NoResult /\ svc_i = 0 /\ sret = NoRet
             /\ avail = "unchecked" /\ nmap_run = NoRun /\ ran = <<>> /\ FpIdle

\* result.os_guess = detect_os(host, &open_ports).await
detect_os_call ==
    /\ spc = "detect_os"
    /\ result' = [result EXCEPT !.os_guess = detect_os(open_ports)]
    /\ ran' = <<"detect_os">>
    /\ spc' = "detect_os_ret"
    /\ UNCHANGED <<supVars, opts, unchunked, tospawn, probes, batch, awaiting, open_ports,
                   closed_ports, completed, svc_i, sret, target, avail, nmap_run, fpVars>>

NextOs == detect_os_call

SpecOs == InitOs /\ [][NextOs]_vars

OpenSet == {open_ports[i].port : i \in 1..Len(open_ports)}

\* C18: detect_os returns None for no open port, "Windows" for a port of
\* {135, 445, 3389} and none of {22, 111}, "Unix/Linux" for a port of
\* {22, 111} and none of {135, 445, 3389}, "Unknown" in the other cases.
C18_DetectOs ==
    spc = "detect_os_ret" =>
        LET win == OpenSet \cap {135, 445, 3389} # {}
            unix == OpenSet \cap {22, 111} # {}
            r == result.os_guess
        IN /\ OpenSet = {} => r = NoneOs
           /\ (win /\ ~unix) => r = "Windows"
           /\ (unix /\ ~win) => r = "Unix/Linux"
           /\ (OpenSet # {} /\ ~(win /\ ~unix) /\ ~(unix /\ ~win)) => r = "Unknown"

\* port 111 and a port of neither family are open
C18_Witness ==
    /\ spc = "detect_os_ret" /\ OpenSet = {80, 111} /\ result.os_guess = "Unix/Linux"


\* ------------------------------------------------ scanner.rs: parse_nmap_xml
\* A line of the payload is a sequence of pieces of text. Words that share a
\* prefix are cut at the end of it ("address" is "addr" "ess", "ports" is
\* "port" "s"), so that a search for pieces finds what the search for the
\* characters finds; a number is written digit by digit.
Q == "\""
Sub(line, i, n) == SubSeq(line, i, i + n - 1)
\* str::contains and str::find (0 for None) of a pattern of pieces
Has(line, pat) == \E i \in 1..(Len(line) - Len(pat) + 1) : Sub(line, i, Len(pat)) = pat
Find(line, pat) ==
    IF ~Has(line, pat) THEN 0
    ELSE CHOOSE i \in 1..(Len(line) - Len(pat) + 1) :
            /\ Sub(line, i, Len(pat)) = pat
            /\ \A j \in 1..(i - 1) : Sub(line, j, Len(pat)) # pat

\* what follows position i up to the next quote; None without a closing quote
UpToQuote(line, i) ==
    LET rest == SubSeq(line, i, Len(line))
        end == Find(rest, <<Q>>)
    IN  IF end = 0 THEN NoneStr ELSE SubSeq(rest, 1, end - 1)

\* extract_attr (scanner.rs 503-512)
extract_attr(line, attr) ==
    LET start == Find(line, <<attr, "=", Q>>)
    IN  IF start = 0 THEN NoneStr ELSE UpToQuote(line, start + 3)

\* str::parse::<u16>: an optional "+" and decimal digits, at most 65535;
\* -1 stands for Err
Digits == <<"0", "1", "2", "3", "4", "5", "6", "7", "8", "9">>
IsDigit(t) == \E d \in 1..10 : Digits[d] = t
DigitVal(t) == (CHOOSE d \in 1..10 : Digits[d] = t) - 1
RECURSIVE Decimal(_)
Decimal(v) == IF v = <<>> THEN 0
              ELSE 10 * Decimal(SubSeq(v, 1, Len(v) - 1)) + DigitVal(v[Len(v)])
U16_MAX == 65535
parse_u16_wrap(v) ==
    LET body == IF v # <<>> /\ v[1] = "+" THEN Tail(v) ELSE v
    IN  IF body = <<>> \/ \E i \in 1..Len(body) : ~IsDigit(body[i]) THEN -1
        ELSE Decimal(body) % (U16_MAX + 1)
parse_u16(v) ==
    LET body == IF v # <<>> /\ v[1] = "+" THEN Tail(v) ELSE v
    IN  IF body = <<>> \/ \E i \in 1..Len(body) : ~IsDigit(body[i]) THEN -1
        ELSE IF Decimal(body) > U16_MAX THEN -1
        ELSE Decimal(body)

unwrap_or_default(opt, default) == default
unwrap_or(opt, default) == IF opt = NoneStr THEN default ELSE opt

\* match state.as_str() (scanner.rs 461-465)
StatusOf_open(state) == "Open"
StatusOf(state) == IF state = <<"open">> THEN "Open"
                   ELSE IF state = <<"closed">> THEN "Closed"
                   ELSE "Filtered"

\* scanner.rs 447-454: the host address
IsAddressLine(line) == Has(line, <<"addr", "ess", "=">>) /\ Has(line, <<"addr", "=">>)
HostOf(host, line) ==
    IF IsAddressLine(line) /\ Find(line, <<"addr", "=", Q>>) # 0
          /\ UpToQuote(line, Find(line, <<"addr", "=", Q>>) + 3) # NoneStr
    THEN UpToQuote(line, Find(line, <<"addr", "=", Q>>) + 3)
    ELSE host

\* scanner.rs 457-477: the port of the line, if any
PortsOf(line) ==
    IF Has(line, <<"<", "port", " ">>) /\ extract_attr(line, "portid") # NoneStr
          /\ parse_u16(extract_attr(line, "portid")) # -1
    THEN <<PortInfoOf(parse_u16(extract_attr(line, "portid")),
                      StatusOf(unwrap_or(extract_attr(line, "state"), <<"unknown">>)),
                      unwrap_or(extract_attr(line, "protocol"), <<"tcp">>))>>
    ELSE <<>>

\* scanner.rs 480-490: the service of the line, if any
ServicesOf(line) ==
    IF Has(line, <<"<", "service", " ">>)
    THEN LET name == unwrap_or(extract_attr(line, "name"), <<"unknown">>)
             product == extract_attr(line, "product")
         IN <<ServiceInfo(IF product # NoneStr THEN product ELSE name,
                          extract_attr(line, "version"), name, 0, "parse_nmap_xml")>>
    ELSE <<>>

\* scanner.rs 493-497: the OS guess
OsOf(os, line) ==
    IF Has(line, <<"<", "osmatch", " ">>) /\ extract_attr(line, "name") # NoneStr
    THEN extract_attr(line, "name")
    ELSE os

\* the loop over xml.lines() (scanner.rs 445-498)
RECURSIVE ParseLines(_, _)
ParseLines(r, lines) ==
    IF lines = <<>> THEN r
    ELSE LET line == Head(lines) IN
         ParseLines([r EXCEPT !.host = HostOf(@, line),
                              !.ports = @ \o PortsOf(line),
                              !.services = @ \o ServicesOf(line),
                              !.os_guess = OsOf(@, line)],
                    Tail(lines))

\* parse_nmap_xml (scanner.rs 435-500)
parse_nmap_xml(xml) ==
    Ok(ParseLines(ScanResult(<<"unknown">>, <<>>, NoneStr, <<>>, "nmap"), xml))

\* lines of payloads: those nmap writes, and damaged ones
AddressLine ==
    <<"<", "addr", "ess", " ", "addr", "=", Q, "127.0.0.1", Q, " ",
      "addr", "type", "=", Q, "ipv4", Q, "/>">>
PortLine(proto, portid, state) ==
    <<"<", "port", " ", "protocol", "=", Q, proto, Q, " ", "portid", "=", Q>> \o portid
       \o <<Q, ">", "<", "state", " ", "state", "=", Q, state, Q, " ",
            "reason", "=", Q, "syn-ack", Q, "/>">>
ServicePart(name) == <<"<", "service", " ", "name", "=", Q, name, Q>>
Http80Line == PortLine("tcp", <<"8", "0">>, "open") \o ServicePart("http") \o <<"/>", "</", "port", ">">>
Closed22Line == PortLine("tcp", <<"2", "2">>, "closed") \o <<"</", "port", ">">>
Dns53Line ==
    PortLine("udp", <<"5", "3">>, "open|filtered") \o ServicePart("domain")
       \o <<" ", "product", "=", Q, "dnsmasq", Q, " ", "version", "=", Q, "2.80", Q, "/>">>
OsLine == <<"<", "osmatch", " ", "name", "=", Q, "Linux 5.4", Q, " ", "accuracy", "=", Q, "100", Q, ">">>
PortsOpenLine == <<"<", "port", "s", ">", "<", "extraports", " ", "state", "=", Q, "closed", Q, ">">>
BigPortLine == PortLine("tcp", <<"7", "0", "0", "0", "0">>, "open")
NoPortidLine == <<"<", "port", " ", "protocol", "=", Q, "tcp", Q, ">">>
CutLine == <<"<", "port", " ", "protocol", "=", Q, "tcp", Q, " ", "portid", "=", Q, "8">>
WellFormedLines == {AddressLine, Http80Line, Closed22Line, Dns53Line, OsLine, PortsOpenLine}
\* not a line of nmap: an attribute called address next to addr
AttrAddressLine ==
    <<"<", "host", " ", "addr", "ess", "=", Q, "10.0.0.1", Q, " ", "addr", "=", Q, "10.0.0.2", Q, ">">>
DamagedLines == {BigPortLine, NoPortidLine, CutLine, AttrAddressLine, <<>>}
XmlLines == WellFormedLines \cup DamagedLines
XmlPayloads == UNION {[1..n -> XmlLines] : n \in 0..MaxElements}

\* parse_nmap_xml applied to a payload
InitXml == InitSupervisor /\ stdoutLines = {} /\ toPrint = 0 /\ callers = {}
              /\ target = AnyTarget
              /\ spc = "parse"
              /\ nmap_run \in {[launch |-> "ok", code |-> 0, stdout |-> d, stderr |-> ""] :
                                  d \in XmlPayloads}
              /\ opts = NoOpts /\ unchunked = <<>> /\ tospawn = <<>>
              /\ probes = <<>> /\ batch = 0 /\ awaiting = 0
              /\ open_ports = <<>> /\ closed_ports = <<>> /\ completed = <<>>
              /\ result = NoResult /\ svc_i = 0 /\ sret = NoRet
              /\ avail = "unchecked" /\ ran = <<>> /\ FpIdle

parse_nmap_xml_call ==
    /\ spc = "parse"
    /\ sret' = parse_nmap_xml(nmap_run.stdout)
    /\ ran' = <<"parse_nmap_xml">>
    /\ spc' = "parse_ret"
    /\ UNCHANGED <<supVars, opts, unchunked, tospawn, probes, batch, awaiting, open_ports,
                   closed_ports, completed, result, svc_i, target, avail, nmap_run, fpVars>>

NextXml == parse_nmap_xml_call

SpecXml == InitXml /\ [][NextXml]_vars

\* --------------------------------------- scanner.rs: parse_version_from_banner
\* A banner is a sequence of pieces of text, cut as the lines of the nmap
\* payload are: "Server:", " ", "v", "ersion", "/", each digit and each dot
\* are pieces of their own, "\r" and "\n" are the line ends.
IsRunChar(t) == IsDigit(t) \/ t = "."
\* str::lines: the text between the "\n", without the "\r" before a "\n"
RECURSIVE LinesOf(_)
LinesOf(b) ==
    IF b = <<>> THEN <<>>
    ELSE LET nl == Find(b, <<"\n">>)
             first == IF nl = 0 THEN b ELSE SubSeq(b, 1, nl - 1)
             line == IF nl # 0 /\ first # <<>> /\ first[Len(first)] = "\r"
                     THEN SubSeq(first, 1, Len(first) - 1) ELSE first
         IN  <<line>> \o (IF nl = 0 THEN <<>> ELSE LinesOf(SubSeq(b, nl + 1, Len(b))))

\* remaining.chars().position(|c| !c.is_ascii_digit() && c != '.'), -1 for None
RunEnd(rem) ==
    LET stops == {i \in 1..Len(rem) : ~IsRunChar(rem[i])}
    IN  IF stops = {} THEN -1 ELSE (CHOOSE i \in stops : \A j \in stops : i <= j) - 1
DotsIn(v) == Cardinality({i \in 1..Len(v) : v[i] = "."})

patterns == << <<"Server:", " ">>, <<"v", "ersion", " ">>, <<" ", "v">>, <<"/">> >>

\* scanner.rs 326-337 for one line and one pattern: Some(version) or None
VersionAt(line, pattern) ==
    LET pos == Find(line, pattern) IN
    IF pos = 0 THEN NoneStr
    ELSE LET remaining == SubSeq(line, pos + Len(pattern), Len(line))
             end == RunEnd(remaining)
         IN  IF end = -1 THEN NoneStr
             ELSE IF end > 0 /\ DotsIn(SubSeq(remaining, 1, end)) <= 2
                  THEN SubSeq(remaining, 1, end)
                  ELSE NoneStr

\* the loops of scanner.rs 324-339: lines outside, patterns inside
RECURSIVE FirstPass(_, _)
FirstPass(lines, k) ==
    IF lines = <<>> THEN NoneStr
    ELSE IF k > Len(patterns) THEN FirstPass(Tail(lines), 1)
    ELSE IF VersionAt(Head(lines), patterns[k]) # NoneStr
         THEN VersionAt(Head(lines), patterns[k])
         ELSE FirstPass(lines, k + 1)

IsSpace(t) == t \in {" ", "\r", "\n"}
RECURSIVE TrimWsStart(_)
TrimWsStart(v) == IF v # <<>> /\ IsSpace(Head(v)) THEN TrimWsStart(Tail(v)) ELSE v
RECURSIVE TrimWsEnd(_)
TrimWsEnd(v) == IF v # <<>> /\ IsSpace(v[Len(v)]) THEN TrimWsEnd(SubSeq(v, 1, Len(v) - 1)) ELSE v
TrimWs(v) == TrimWsEnd(TrimWsStart(v))

\* scanner.rs 342-353: the value of the Server header
SecondPass(b) ==
    IF ~Has(b, <<"Server:">>) THEN NoneStr
    ELSE LET line == SubSeq(b, Find(b, <<"Server:">>), Len(b))
             cr == Find(line, <<"\r">>)
             lf == Find(line, <<"\n">>)
         IN  IF cr # 0 THEN TrimWs(SubSeq(line, 2, cr - 1))
             ELSE IF lf # 0 THEN TrimWs(SubSeq(line, 2, lf - 1))
             ELSE NoneStr

\* parse_version_from_banner (scanner.rs 315-356)
parse_version_from_banner(b) ==
    IF FirstPass(LinesOf(b), 1) # NoneStr THEN FirstPass(LinesOf(b), 1) ELSE SecondPass(b)

MaxBanner == 4
V1180 == <<"1", ".", "1", "8", ".", "0">>
ServerNginx == <<"Server:", " ", "nginx", "/">> \o V1180
NoVersionHere == <<"no", " ", "v", "ersion", " ", "here">>
StatusLine == <<"HTTP", "/", "1", ".", "1", " ", "2", "0", "0", " ", "OK">>
HttpNginx == StatusLine \o <<"\r", "\n", "Server:", " ", "nginx", "\r", "\n">>
HttpNginxVersion == StatusLine \o <<"\n">> \o ServerNginx
NginxV == <<"nginx", " ", "v">> \o V1180 \o <<" ", "(Ubuntu)">>
OnlyServer == <<"Server:", " ", "nginx", "\r", "\n">>
NamedBanners == {<<>>, ServerNginx, NoVersionHere, HttpNginx, HttpNginxVersion, NginxV, OnlyServer}
BannerPieces == {"/", "1", ".", "x", "\n"}
Banners == NamedBanners \cup UNION {[1..n -> BannerPieces] : n \in 0..MaxBanner}

InitBanner == InitSupervisor /\ stdoutLines = {} /\ toPrint = 0 /\ callers = {}
                 /\ target = AnyTarget
                 /\ spc = "banner" /\ banner \in Banners
                 /\ bversion = NoneStr /\ dsv = NoDsv
                 /\ opts = NoOpts /\ unchunked = <<>> /\ tospawn = <<>>
                 /\ probes = <<>> /\ batch = 0 /\ awaiting = 0
                 /\ open_ports = <<>> /\ closed_ports = <<>> /\ completed = <<>>
                 /\ result = NoResult /\ svc_i = 0 /\ sret = NoRet
                 /\ avail = "unchecked" /\ nmap_run = NoRun /\ ran = <<>>

parse_version_call ==
    /\ spc = "banner"
    /\ bversion' = parse_version_from_banner(banner)
    /\ spc' = "banner_ret"
    /\ UNCHANGED <<supVars, opts, unchunked, tospawn, probes, batch, awaiting, open_ports,
                   closed_ports, completed, result, svc_i, sret, target, avail, nmap_run,
                   ran, banner, dsv>>

NextBanner == parse_version_call

SpecBanner == InitBanner /\ [][NextBanner]_vars

\* ----------------------------------------- scanner.rs: detect_service_version
HTTP_PORTS == {80, 8000, 8080, 3000, 5173, 8787}
\* [80, 8000, 8080, 3000, 5173, 8787].contains(&port.port)
SendsRequest(p) == p \in HTTP_PORTS
FpPorts == {22, 8080}
\* what a read of the stream gives: bytes, end of stream (n = 0), an error,
\* or nothing before the timeout of the read ("silent": nothing is consumed)
ReadOutcomes == {"data", "eof", "error", "silent"}
\* the two reads a service can be put to; after the end of the stream or an
\* error no bytes follow
ServiceReads ==
    {r \in [1..2 -> ReadOutcomes] :
        /\ r[1] = "eof" => r[2] = "eof"
        /\ r[1] = "error" => r[2] \in {"error", "eof"}}
Payloads == {NginxV, OnlyServer}
NoService == ServiceInfo("none", NoneStr, NoneStr, 0, "none")

\* detect_service_version(host, port, timeout_duration) against a service
\* that answers the connect with conn and the reads with reads
detect_service_version_call(port_, conn, reads, payload) ==
    /\ spc = "idle" /\ dsv.pc = "idle"
    /\ dsv' = [pc |-> "connect", port |-> port_, conn |-> conn, reads |-> reads,
               payload |-> payload, got |-> 0, discarded |-> 0,
               some |-> FALSE, ret |-> NoService]
    /\ UNCHANGED <<supVars, scanCallVars, banner, bversion>>

\* scanner.rs 279-284: connect, then split the stream
dsv_connect ==
    /\ dsv.pc = "connect"
    /\ dsv' = IF dsv.conn # "ok" THEN [dsv EXCEPT !.pc = "ret"]
              ELSE [dsv EXCEPT !.pc = IF SendsRequest(dsv.port) THEN "http" ELSE "read"]
    /\ UNCHANGED <<supVars, scanCallVars, banner, bversion>>

\* scanner.rs 287-294: the request and the read of 100 ms whose result is
\* dropped (`let _ = ...`)
dsv_http ==
    /\ dsv.pc = "http"
    /\ dsv' = [dsv EXCEPT !.pc = "read",
                          !.reads = Tail(@),
                          !.got = IF Head(dsv.reads) = "data" THEN @ + 1 ELSE @,
                          !.discarded = IF Head(dsv.reads) = "data" THEN @ + 1 ELSE @]
    /\ UNCHANGED <<supVars, scanCallVars, banner, bversion>>

\* scanner.rs 297-311: the read of 200 ms and the result
dsv_read ==
    /\ dsv.pc = "read"
    /\ IF Head(dsv.reads) = "data"
       THEN /\ banner' = dsv.payload
            /\ bversion' = parse_version_from_banner(dsv.payload)
            /\ dsv' = [dsv EXCEPT !.pc = "ret", !.got = @ + 1, !.some = TRUE,
                          !.ret = ServiceInfo("unknown",
                                              parse_version_from_banner(dsv.payload),
                                              TrimWs(dsv.payload), dsv.port,
                                              "detect_service_version")]
       ELSE /\ dsv' = [dsv EXCEPT !.pc = "ret"]
            /\ UNCHANGED <<banner, bversion>>
    /\ UNCHANGED <<supVars, scanCallVars>>

dsv_return ==
    /\ dsv.pc = "ret"
    /\ dsv' = NoDsv /\ banner' = <<>> /\ bversion' = NoneStr
    /\ UNCHANGED <<supVars, scanCallVars>>

NextFingerprint ==
    \/ \E port_ \in FpPorts, conn \in {"ok", "refused", "timeout"},
          reads \in ServiceReads, payload \in Payloads :
          detect_service_version_call(port_, conn, reads, payload)
    \/ dsv_connect
    \/ dsv_http
    \/ dsv_read
    \/ dsv_return

SpecFingerprint == InitScan /\ [][NextFingerprint]_vars

\* ------------------------------ commands.rs: scan_local_servers_advanced
\* Err(format!("{prefix}{payload}"))
Err(prefix, payload) == [tag |-> "Err", reports |-> <<>>, text |-> <<prefix, payload>>]

\* what running `nmap ... -oX -` can give: the launch fails with an io error,
\* or the process runs to its end with an exit code, its stdout and stderr
IoErrors == {"No such file or directory", "Permission denied"}
StderrTexts == {"", "Failed to resolve"}
NmapStdouts == XmlPayloads
NmapRuns ==
    {[launch |-> err, code |-> 0, stdout |-> <<>>, stderr |-> ""] : err \in IoErrors}
    \cup {[launch |-> "ok", code |-> c, stdout |-> d, stderr |-> t] :
             c \in {0, 1}, d \in NmapStdouts, t \in StderrTexts}

\* use_nmap && is_nmap_available()
UseNmap_requested(use_nmap, available) == use_nmap
UseNmap(use_nmap, available) == use_nmap /\ available

\* output.status.success()
Success_any(run) == TRUE
Success(run) == run.code = 0

\* scan_local_servers_advanced(ports, os_detection, version_detection, use_nmap)
\* with ports = Some(ports)
scan_local_servers_advanced_call(ports, os, ver, use_nmap) ==
    /\ spc = "idle"
    /\ opts' = ScanOptions(ports, DEFAULT_PARALLELISM, os, ver, use_nmap)
    /\ spc' = "advanced"
    /\ UNCHANGED <<supVars, unchunked, tospawn, probes, batch, awaiting, open_ports,
                   closed_ports, completed, result, svc_i, sret, target, avail, nmap_run, ran, fpVars>>

\* commands.rs 479: is_nmap_available() is evaluated only when use_nmap holds
advanced_choose ==
    /\ spc = "advanced"
    /\ \E a \in (IF opts.use_nmap THEN {"yes", "no"} ELSE {"unchecked"}) :
          /\ avail' = a
          /\ ran' = IF opts.use_nmap THEN Append(ran, "is_nmap_available") ELSE ran
          /\ spc' = IF UseNmap(opts.use_nmap, a = "yes") THEN "nmap" ELSE "localhost"
    /\ UNCHANGED <<supVars, opts, unchunked, tospawn, probes, batch, awaiting, open_ports,
                   closed_ports, completed, result, svc_i, sret, target, nmap_run, fpVars>>

\* scan_localhost (scanner.rs 129-142): scan_host with the default parallelism
scan_localhost_call ==
    /\ spc = "localhost"
    /\ unchunked' = opts.ports
    /\ ran' = Append(ran, "scan_host")
    /\ spc' = "chunk"
    /\ UNCHANGED <<supVars, opts, tospawn, probes, batch, awaiting, open_ports,
                   closed_ports, completed, result, svc_i, sret, target, avail, nmap_run, fpVars>>

\* scan_with_nmap (scanner.rs 378-432)
scan_with_nmap ==
    /\ spc = "nmap"
    /\ \E run \in NmapRuns :
          /\ nmap_run' = run
          /\ IF run.launch # "ok"
             THEN /\ sret' = Err("Failed to run nmap: ", run.launch)
                  /\ ran' = Append(ran, "nmap")
             ELSE IF ~Success(run)
             THEN /\ sret' = Err("nmap scan failed: ", run.stderr)
                  /\ ran' = Append(ran, "nmap")
             ELSE /\ sret' = parse_nmap_xml(run.stdout)
                  /\ ran' = ran \o <<"nmap", "parse_nmap_xml">>
    /\ spc' = "ret"
    /\ UNCHANGED <<supVars, opts, unchunked, tospawn, probes, batch, awaiting, open_ports,
                   closed_ports, completed, result, svc_i, target, avail, fpVars>>

NextAdvanced ==
    \/ \E ports \in PortLists, os, ver, use_nmap \in BOOLEAN :
          scan_local_servers_advanced_call(ports, os, ver, use_nmap)
    \/ advanced_choose
    \/ scan_localhost_call
    \/ scan_with_nmap
    \/ ScanHost

SpecAdvanced == InitScan /\ [][NextAdvanced]_vars


IsBackend(x) == x \in {"nmap", "scan_host"}
BackendsRun == SelectSeq(ran, IsBackend)
HasRun(x) == \E k \in 1..Len(ran) : ran[k] = x

\* C19: a call of scan_local_servers_advanced runs nmap exactly when use_nmap
\* was requested and is_nmap_available answered yes, and the internal scanner
\* otherwise; it runs one backend, and nmap only after an availability check
\* of the same call that succeeded.
C19_OneBackend ==
    /\ Len(BackendsRun) <= 1
    /\ \A k \in 1..Len(ran) :
          ran[k] = "nmap" =>
             /\ avail = "yes"
             /\ \E j \in 1..(k - 1) : ran[j] = "is_nmap_available"
    /\ spc = "ret" =>
          /\ Len(BackendsRun) = 1
          /\ HasRun("nmap") <=> (opts.use_nmap /\ avail = "yes")
          /\ HasRun("scan_host") <=> ~(opts.use_nmap /\ avail = "yes")

\* nmap was requested and found missing: the internal scanner ran, alone
C19_Witness ==
    /\ spc = "ret" /\ opts.use_nmap /\ avail = "no"
    /\ ran = <<"is_nmap_available", "scan_host">>
    /\ sret.tag = "Ok" /\ sret.reports[1].by = "scan_host"

NmapChosen == spc = "ret" /\ HasRun("nmap")
CannotRun == nmap_run.launch # "ok"
NonZero == nmap_run.launch = "ok" /\ nmap_run.code # 0
NothingElse ==
    /\ sret.reports = <<>>
    /\ ~HasRun("parse_nmap_xml") /\ ~HasRun("scan_host")

\* C20, as stated: when nmap was chosen and exited non-zero or could not be
\* run, the call returns an error that carries the captured stderr, without
\* a report, without parsing the output and without running the internal
\* scanner.
C20_ErrorCarriesStderr_AsStated ==
    (NmapChosen /\ (NonZero \/ CannotRun)) =>
        /\ sret.tag = "Err" /\ sret.text[2] = nmap_run.stderr
        /\ NothingElse

\* C20: when nmap was chosen and exited non-zero, the call returns the error
\* "nmap scan failed: " followed by the captured stderr; when nmap could not
\* be run, it returns "Failed to run nmap: " followed by the launch error. In
\* both cases there is no report, no parsing and no internal scan.
C20_ErrorOfNmap ==
    /\ (NmapChosen /\ NonZero) =>
          /\ sret = Err("nmap scan failed: ", nmap_run.stderr)
          /\ NothingElse
    /\ (NmapChosen /\ CannotRun) =>
          /\ sret = Err("Failed to run nmap: ", nmap_run.launch)
          /\ sret.text[2] \in IoErrors
          /\ NothingElse

\* nmap exited with code 1 after writing a port element to stdout and a
\* message to stderr
C20_Witness ==
    /\ NmapChosen /\ NonZero
    /\ nmap_run.stdout = <<Http80Line>>
    /\ nmap_run.stderr = "Failed to resolve"
    /\ sret.tag = "Err" /\ sret.text = <<"nmap scan failed: ", "Failed to resolve">>
    /\ ran = <<"is_nmap_available", "nmap">>


\* ------------------------------------------------ reports of the two backends
Returned == spc = "ret" /\ sret.tag = "Ok"
ReturnedPorts == sret.reports[1].ports
\* the lines of the payload that describe a port with a 16-bit number
IsPortLine(line) == line \in {Http80Line, Closed22Line, Dns53Line}
StateOfLine(line) == IF line = Http80Line THEN "open"
                     ELSE IF line = Closed22Line THEN "closed"
                     ELSE "open|filtered"
PortLinesRun == SelectSeq(nmap_run.stdout, IsPortLine)

Parsed == sret.reports[1]
Payload == nmap_run.stdout
\* the entry expected for a port line of the payload
EntryOfLine(line) ==
    IF line = Http80Line THEN PortInfoOf(80, "Open", <<"tcp">>)
    ELSE IF line = Closed22Line THEN PortInfoOf(22, "Closed", <<"tcp">>)
    ELSE PortInfoOf(53, "Filtered", <<"udp">>)
HasServiceElement(line) == line \in {Http80Line, Dns53Line}
PortLinesOf(xml) == SelectSeq(xml, IsPortLine)

\* C22: parse_nmap_xml returns Ok with one report for every payload; the
\* report of the empty payload has no port, no service and no OS guess; a
\* port line without a 16-bit portid adds no entry, the entries being those
\* of the other port lines.
C22_ParseIsTotal ==
    spc = "parse_ret" =>
        /\ sret.tag = "Ok" /\ Len(sret.reports) = 1
        /\ Payload = <<>> =>
              Parsed.ports = <<>> /\ Parsed.services = <<>> /\ Parsed.os_guess = NoneStr
        /\ Len(Parsed.ports) = Len(PortLinesOf(Payload))
        /\ \A k \in 1..Len(Parsed.ports) : Parsed.ports[k] = EntryOfLine(PortLinesOf(Payload)[k])

\* a port line with the portid 70000 before the line of port 22
C22_Witness ==
    /\ spc = "parse_ret" /\ Payload = <<BigPortLine, Closed22Line>>
    /\ sret.tag = "Ok" /\ Parsed.ports = <<PortInfoOf(22, "Closed", <<"tcp">>)>>

WellFormed(xml) == \A k \in 1..Len(xml) : xml[k] \in WellFormedLines
\* C23: for a payload of well-formed lines the report has one entry for each
\* port element, with its portid, its protocol and the status of its state,
\* and one service entry for each service element; the payload of port
\* 80/tcp open with the service http gives that port and one service http.
C23_ParseWellFormed ==
    (spc = "parse_ret" /\ WellFormed(Payload)) =>
        /\ Len(Parsed.ports) = Len(PortLinesOf(Payload))
        /\ \A k \in 1..Len(Parsed.ports) : Parsed.ports[k] = EntryOfLine(PortLinesOf(Payload)[k])
        /\ Len(Parsed.services) = Len(SelectSeq(Payload, HasServiceElement))
        /\ Payload = <<Http80Line>> =>
              /\ Parsed.ports = <<PortInfoOf(80, "Open", <<"tcp">>)>>
              /\ Len(Parsed.services) = 1 /\ Parsed.services[1].name = <<"http">>

\* the line that opens the ports element, then port 53/udp with its service
C23_Witness ==
    /\ spc = "parse_ret" /\ Payload = <<PortsOpenLine, Dns53Line>>
    /\ Parsed.ports = <<PortInfoOf(53, "Filtered", <<"udp">>)>>
    /\ Len(Parsed.services) = 1 /\ Parsed.services[1].info = <<"domain">>

HasAddressElement(xml) == \E k \in 1..Len(xml) : Has(xml[k], <<"<", "addr", "ess", " ">>)
\* C28: the host of the report is the addr value of the address element of
\* the payload, and "unknown" only for a payload without address element.
C28_HostFromAddress ==
    spc = "parse_ret" =>
        /\ (\E k \in 1..Len(Payload) : Payload[k] = AddressLine) => Parsed.host = <<"127.0.0.1">>
        /\ Parsed.host = <<"unknown">> => ~HasAddressElement(Payload)


\* ------------------------------------------ parse_version_from_banner, by cases
LineSet(b) == {LinesOf(b)[l] : l \in 1..Len(LinesOf(b))}
\* the places of a line that follow a marker
MarkerEnds(line) ==
    {i + Len(patterns[k]) : i \in 1..Len(line), k \in 1..Len(patterns)} \cap
    {s \in 1..(Len(line) + 1) :
        \E k \in 1..Len(patterns) :
            /\ s - Len(patterns[k]) >= 1
            /\ SubSeq(line, s - Len(patterns[k]), s - 1) = patterns[k]}
\* the run of digits and dots of the line from place s on, to the first
\* other character or to the end of the line
MaxRun(line, s) ==
    SubSeq(line, s, CHOOSE j \in (s - 1)..Len(line) :
                       /\ \A m \in s..j : IsRunChar(line[m])
                       /\ (j = Len(line) \/ ~IsRunChar(line[j + 1])))
\* the runs after markers that are not empty and have at most two dots
GoodRuns(b) ==
    {r \in UNION {{MaxRun(line, s) : s \in MarkerEnds(line)} : line \in LineSet(b)} :
        r # <<>> /\ DotsIn(r) <= 2}
DigitAfterMarker(b) ==
    \E line \in LineSet(b) : \E s \in MarkerEnds(line) : s <= Len(line) /\ IsDigit(line[s])

\* C24: parse_version_from_banner returns a run of digits and dots that
\* follows a marker whenever there is one that is not empty and has at most
\* two dots, also at the end of a line; "Server: nginx/1.18.0" gives
\* "1.18.0"; a banner without a digit after a marker gives None.
C24_VersionAfterMarker ==
    spc = "banner_ret" =>
        /\ GoodRuns(banner) # {} => bversion \in GoodRuns(banner)
        /\ banner = ServerNginx => bversion = V1180
        /\ ~DigitAfterMarker(banner) => bversion = NoneStr

\* the lines of the banner that are a Server header
ServerHeaders(b) == {line \in LineSet(b) : line # <<>> /\ Head(line) = "Server:"}
\* C25: for a banner with a Server header line and text that the scan for
\* markers matches, parse_version_from_banner returns the whole value of the
\* Server header.
C25_ServerHeaderFirst ==
    (spc = "banner_ret" /\ ServerHeaders(banner) # {} /\ GoodRuns(banner) # {}) =>
        \E line \in ServerHeaders(banner) : bversion = TrimWs(Tail(line))


\* C26: detect_service_version returns a ServiceInfo whenever a read received
\* bytes, returns None only when the connect failed or no byte arrived, and
\* drops no bytes that it has read.
C26_BannerKept ==
    dsv.pc = "ret" =>
        /\ dsv.got > 0 => dsv.some
        /\ ~dsv.some => (dsv.conn # "ok" \/ dsv.got = 0)
        /\ dsv.discarded = 0

\* ------------------------------------------------ server.rs: both start paths
\* one caller, in a development run or in a packaged build
InitStart ==
    /\ InitProgram /\ dev \in BOOLEAN /\ ScanIdle /\ target = AnyTarget
    /\ stdoutLines = FewLines /\ toPrint = 1 /\ callers = {1}

SpecStart == InitStart /\ [][Next]_vars

\* C27: whenever the server slot holds a handle with port p, the Command of
\* its process set PORT to p and set DB_PATH, in a development run and in a
\* packaged build alike.
C27_BackendEnvironment ==
    \A p \in Pids :
        slot["server"] = p =>
            /\ "PORT" \in penv[p].given /\ Decimal(penv[p].PORT) = pport[p]
            /\ "DB_PATH" \in penv[p].given /\ penv[p].DB_PATH # <<>>

\* C29: whenever a slot is occupied, the process of its handle is still
\* running, so that a status that reports running on account of the handle
\* and a start rejected as 'already running' always refer to a live process.
C29_OccupiedMeansAlive ==
    \A k \in Kinds : Occupied(k) => pstate[slot[k]] = "running"

\* ------------------------------------- the backends and the ports they bind
\* A backend binds its port some time after it was spawned: the port of its
\* PORT variable when its Command set one, else the port of settings.json or
\* the default one (window.rs 148, 465-471).
SettingsPorts == {MIN_PORT, DEFAULT_PORT}
ListenPorts(p) ==
    IF "PORT" \in penv[p].given THEN {Decimal(penv[p].PORT)} ELSE SettingsPorts

backend_listen(p) ==
    /\ pstate[p] = "running" /\ pkind[p] \in {"server", "auto"} /\ listening[p] = 0
    /\ \E q \in ListenPorts(p) : ~PortTaken(q) /\ listening' = [listening EXCEPT ![p] = q]
    /\ UNCHANGED <<slot, slotLock, procVars, callVars, tunVars, toPrint, stdoutLines, callers,
                   dev, scanVars, winVars>>

NextStartup == NextSession \/ \E p \in Pids : backend_listen(p)

SpecStartup == InitSession /\ [][NextStartup]_vars

\* the backends of the application: spawned by start_server or by the
\* auto-start task
Backends == {p \in Pids : pkind[p] \in {"server", "auto"} /\ pstate[p] = "running"}

\* C30: at most one backend of the application is alive at any time; a
\* start_server never spawns one while the auto-started backend is running
\* or still starting up.
C30_OneBackend == Cardinality(Backends) <= 1

====
